---- MODULE Spec2Model ----
(***************************************************************************)
(* A model of the OpenAPI filter of imtanmoy/openax (package openax,       *)
(* filter.go): Client.Filter / applyFilter, the operation matcher, the     *)
(* reference collectors, the recursive schema resolver and the pruner.     *)
(*                                                                         *)
(* Representation.                                                         *)
(*  - A Go string that the code only compares for equality (component,     *)
(*    tag, property names) is a TLA+ string.                               *)
(*  - A Go string the code looks into (paths, filter tokens, HTTP methods, *)
(*    operation ids) is the sequence of its characters.                    *)
(*  - A reference string is the sequence of its "/"-separated segments,    *)
(*    i.e. strings.Split(ref, "/"); the empty string is <<"">>.            *)
(*  - A Go pointer that may be nil is a sequence of length 0 (nil) or 1.   *)
(*  - A Go map is a function; a nil map and an empty map are both <<>>.    *)
(***************************************************************************)
EXTENDS Integers, Sequences, FiniteSets, TLC

\* ------------------------------------------------------------------------
\* Optional values (Go pointers)
\* ------------------------------------------------------------------------
Nil == <<>>

Some(x) == <<x>>

IsNil(p) == Len(p) = 0

Val(p) == p[1]

\* The range of a sequence.
Range(s) == {s[i] : i \in 1..Len(s)}

\* A local variable of the code (x := e): e is evaluated once and F is applied
\* to its value.
Bind(e, F(_)) == CHOOSE r \in { F(x) : x \in {e} } : TRUE

\* Two local variables.
Bind2(e1, e2, F(_, _)) == CHOOSE r \in { F(x, y) : x \in {e1}, y \in {e2} } : TRUE

\* ------------------------------------------------------------------------
\* Strings as character sequences
\* ------------------------------------------------------------------------
\* strings.HasPrefix(s, prefix)
HasPrefix(s, prefix) ==
    /\ Len(prefix) <= Len(s)
    /\ \A i \in 1..Len(prefix) : s[i] = prefix[i]

\* Simple case folding of one character (the letters this model uses).
FoldChar(c) ==
    CASE c = "G" -> "g"
      [] c = "E" -> "e"
      [] c = "T" -> "t"
      [] c = "P" -> "p"
      [] c = "O" -> "o"
      [] c = "S" -> "s"
      [] OTHER -> c

\* strings.EqualFold(s, t)
EqualFold(s, t) ==
    /\ Len(s) = Len(t)
    /\ \A i \in 1..Len(s) : FoldChar(s[i]) = FoldChar(t[i])

\* ------------------------------------------------------------------------
\* Reference strings
\* ------------------------------------------------------------------------
\* The empty reference string "".
NoRef == <<"">>

\* "#/components/<kind>/<name>"
RefTo(kind, name) == <<"#", "components", kind, name>>

\* extractRefName: the last "/"-separated segment.
extractRefName(ref) == ref[Len(ref)]

\* strings.HasPrefix(ref, "#/components/"): the first two segments are "#" and
\* "components" and a third segment (possibly empty) follows the last "/".
HasComponentsPrefix(ref) ==
    /\ Len(ref) >= 3
    /\ ref[1] = "#"
    /\ ref[2] = "components"

\* validateRef: [ok |-> FALSE] for the empty string and for a string without
\* the "#/components/" prefix; otherwise the name that extractRefName gives.
validateRef(ref) ==
    IF ref = NoRef THEN [ok |-> FALSE, name |-> "", reason |-> "empty reference"]
    ELSE IF ~HasComponentsPrefix(ref)
         THEN [ok |-> FALSE, name |-> "", reason |-> "invalid format"]
         ELSE [ok |-> TRUE, name |-> extractRefName(ref), reason |-> ""]

\* ------------------------------------------------------------------------
\* Errors (errors.go)
\* ------------------------------------------------------------------------
\* InvalidReferenceError{Ref, Reason}
InvalidReferenceError(ref, reason) ==
    [type |-> "InvalidReference", kind |-> "", name |-> "", context |-> <<>>,
     ref |-> ref, reason |-> reason]

\* ComponentNotFoundError{Name, Type}
ComponentNotFoundError(kind, name) ==
    [type |-> "ComponentNotFound", kind |-> kind, name |-> name, context |-> <<>>,
     ref |-> NoRef, reason |-> ""]

\* ComponentNotFoundError{Name, Type: "schema", Context}
SchemaNotFoundError(name, context) ==
    [ComponentNotFoundError("schema", name) EXCEPT !.context = context]

\* The error validateRef returns for a reference it rejects.
RefError(ref) == InvalidReferenceError(ref, validateRef(ref).reason)

\* ------------------------------------------------------------------------
\* Folding over sets and sequences
\* ------------------------------------------------------------------------
\* The depth of recursion at which the goroutine stack is exhausted and the
\* Go runtime ends the program.
MaxStack == 6

\* A schema walk yields [ok, crash, errs, refs]: refs are the names put into
\* the caller's map; errs are the errors that can end the walk (which one
\* comes first depends on the iteration order of Go maps); crash says that the
\* recursion can exhaust the stack; ok says that the walk returns nil.
WalkOk(refs) == [ok |-> TRUE, crash |-> FALSE, errs |-> {}, refs |-> refs]

WalkFailed(err) == [ok |-> FALSE, crash |-> FALSE, errs |-> {err}, refs |-> {}]

WalkOverflow == [ok |-> FALSE, crash |-> TRUE, errs |-> {}, refs |-> {}]

\* The walks of a loop put together: the names of all, and ok when all are.
WalkJoinAll(walks) ==
    Bind(walks, LAMBDA ws :
        [ok |-> \A w \in ws : w.ok,
         crash |-> \E w \in ws : w.crash,
         errs |-> UNION { w.errs : w \in ws },
         refs |-> UNION { w.refs : w \in ws }])

WalkJoin(a, b) == WalkJoinAll({a, b})

\* ------------------------------------------------------------------------
\* Schema walker
\* ------------------------------------------------------------------------
\* The SchemaRef nodes directly below a Schema value, in the order the walker
\* visits the fields: items, properties, allOf, oneOf, anyOf, not.
SchemaChildren(schemaValue) ==
    Range(schemaValue.items)
        \cup {schemaValue.properties[p] : p \in DOMAIN schemaValue.properties}
        \cup Range(schemaValue.allOf)
        \cup Range(schemaValue.oneOf)
        \cup Range(schemaValue.anyOf)
        \cup Range(schemaValue.not)

\* extractSchemaReferences / extractSchemaValueReferences /
\* extractCompositionSchemaReferences: a node with a Ref adds its name (or
\* fails on a malformed Ref), and a node with a Value is descended into,
\* whether or not it also has a Ref.  There is no set of visited nodes: depth
\* counts the nested calls of extractSchemaReferences.
RECURSIVE extractSchemaReferencesAt(_, _)
extractSchemaReferencesAt(schema, depth) ==
    Bind(schema, LAMBDA node :
        LET v == validateRef(node.ref)
            own == IF node.ref = NoRef THEN WalkOk({})
                   ELSE IF v.ok THEN WalkOk({v.name})
                   ELSE WalkFailed(RefError(node.ref))
        IN IF depth > MaxStack THEN WalkOverflow
           ELSE IF ~own.ok THEN own
           ELSE IF IsNil(node.value) THEN own
           ELSE WalkJoin(own,
                    WalkJoinAll({extractSchemaReferencesAt(c, depth + 1) :
                                    c \in SchemaChildren(Val(node.value))})))

extractSchemaReferences(schema) == extractSchemaReferencesAt(schema, 0)

\* ------------------------------------------------------------------------
\* MIME collector
\* ------------------------------------------------------------------------
\* A MIME type is the pair <<type, subtype>>.
getDefaultMimeTypes ==
    { <<"application", "json">>,
      <<"application", "x-www-form-urlencoded">>,
      <<"multipart", "form-data">>,
      <<"application", "xml">>,
      <<"text", "plain">> }

\* The operations of a PathItem that are not nil: PathItem.Operations().
Operations(pathItem) == pathItem.ops

\* collectMimeTypesFromOperation: the content keys of the request body and of
\* every response whose Value is set.
collectMimeTypesFromOperation(operation) ==
    (IF ~IsNil(operation.requestBody) /\ ~IsNil(Val(operation.requestBody).value)
     THEN DOMAIN Val(Val(operation.requestBody).value).content
     ELSE {})
    \cup UNION { IF ~IsNil(operation.responses[st].value)
                 THEN DOMAIN Val(operation.responses[st].value).content
                 ELSE {}
               : st \in DOMAIN operation.responses }

\* collectMimeTypesFromPathItem
collectMimeTypesFromPathItem(pathItem) ==
    UNION { collectMimeTypesFromOperation(Operations(pathItem)[m])
          : m \in DOMAIN Operations(pathItem) }

\* findAllMimeTypes without collectMimeTypesFromPathItem: the defaults alone.
findAllMimeTypesDefaults(doc) == getDefaultMimeTypes

\* findAllMimeTypes: the defaults and every key found in the document's
\* operations.
findAllMimeTypes(doc) ==
    getDefaultMimeTypes
        \cup UNION { collectMimeTypesFromPathItem(doc.paths[p]) : p \in DOMAIN doc.paths }

\* openapi3.Content.Get: the exact key, else "type/*", else "*/*", else nil.
ContentGet(content, mime) ==
    IF mime \in DOMAIN content THEN Some(content[mime])
    ELSE IF <<mime[1], "*">> \in DOMAIN content THEN Some(content[<<mime[1], "*">>])
    ELSE IF <<"*", "*">> \in DOMAIN content THEN Some(content[<<"*", "*">>])
    ELSE Nil

\* processContentSchemas: walk the schema of the media type found for each
\* MIME type of the set.
processContentSchemas(content, mimeTypes) ==
    WalkJoinAll({ LET mediaType == ContentGet(content, mt)
                  IN IF ~IsNil(mediaType) /\ ~IsNil(Val(mediaType).schema)
                     THEN extractSchemaReferences(Val(Val(mediaType).schema))
                     ELSE WalkOk({})
                : mt \in mimeTypes })

\* ------------------------------------------------------------------------
\* Seeding from an operation
\* ------------------------------------------------------------------------
\* The four processed-reference maps (ProcessedRefs), as sets of names, with
\* ok, crash and errs as for a walk.
NoRefs ==
    [ok |-> TRUE, crash |-> FALSE, errs |-> {},
     schemas |-> {}, requestBodies |-> {}, parameters |-> {}, responses |-> {}]

\* The maps after the steps of a loop: the names of all, and ok when all are.
RefsJoinAll(rs) ==
    Bind(rs, LAMBDA s :
        [ok |-> \A r \in s : r.ok,
         crash |-> \E r \in s : r.crash,
         errs |-> UNION { r.errs : r \in s },
         schemas |-> UNION { r.schemas : r \in s },
         requestBodies |-> UNION { r.requestBodies : r \in s },
         parameters |-> UNION { r.parameters : r \in s },
         responses |-> UNION { r.responses : r \in s }])

RefsJoin(a, b) == RefsJoinAll({a, b})

\* Two steps in sequence: the second runs only when the first returned nil.
RefsThen(a, b) == Bind(a, LAMBDA first : IF first.ok THEN RefsJoin(first, b) ELSE first)

SchemaSeeds(walk) ==
    [NoRefs EXCEPT !.ok = walk.ok, !.crash = walk.crash, !.errs = walk.errs,
                   !.schemas = walk.refs]

RefsFailed(err) == [NoRefs EXCEPT !.ok = FALSE, !.errs = {err}]

\* processOperationRequestBody
processOperationRequestBody(doc, operation, mimeTypes) ==
    IF IsNil(operation.requestBody) THEN NoRefs
    ELSE LET rb == Val(operation.requestBody)
             v == validateRef(rb.ref)
         IN IF rb.ref # NoRef
            THEN IF ~v.ok THEN RefsFailed(RefError(rb.ref))
                 ELSE RefsJoin(
                        [NoRefs EXCEPT !.requestBodies = {v.name}],
                        IF v.name \in DOMAIN doc.components.requestBodies
                        THEN SchemaSeeds(processContentSchemas(
                                Val(doc.components.requestBodies[v.name].value).content,
                                mimeTypes))
                        ELSE NoRefs)
            ELSE IF ~IsNil(rb.value)
                 THEN SchemaSeeds(processContentSchemas(Val(rb.value).content, mimeTypes))
                 ELSE NoRefs

\* The schema reference a parameter names directly: Value.Schema.Ref when the
\* parameter has a Value with a Schema whose Ref is not empty.
DirectSchemaRef(parameter) ==
    IF /\ ~IsNil(parameter.value)
       /\ ~IsNil(Val(parameter.value).schema)
       /\ Val(Val(parameter.value).schema).ref # NoRef
    THEN LET v == validateRef(Val(Val(parameter.value).schema).ref)
         IN IF v.ok THEN [NoRefs EXCEPT !.schemas = {v.name}]
            ELSE RefsFailed(RefError(Val(Val(parameter.value).schema).ref))
    ELSE NoRefs

\* processOperationParameters, one parameter of the loop
processOperationParameter(doc, param) ==
    IF param.ref # NoRef
    THEN LET v == validateRef(param.ref)
         IN IF ~v.ok THEN RefsFailed(RefError(param.ref))
            ELSE RefsJoin(
                   [NoRefs EXCEPT !.parameters = {v.name}],
                   IF v.name \in DOMAIN doc.components.parameters
                   THEN DirectSchemaRef(doc.components.parameters[v.name])
                   ELSE NoRefs)
    ELSE DirectSchemaRef(param)

\* processOperationParameters
processOperationParameters(doc, operation) ==
    RefsJoinAll({ processOperationParameter(doc, operation.parameters[i])
                : i \in 1..Len(operation.parameters) })

\* processOperationResponses, one response of the loop
processOperationResponse(doc, response, mimeTypes) ==
    IF response.ref # NoRef
    THEN LET v == validateRef(response.ref)
         IN IF ~v.ok THEN RefsFailed(RefError(response.ref))
            ELSE RefsJoin(
                   [NoRefs EXCEPT !.responses = {v.name}],
                   IF v.name \in DOMAIN doc.components.responses
                   THEN SchemaSeeds(processContentSchemas(
                           Val(doc.components.responses[v.name].value).content,
                           mimeTypes))
                   ELSE NoRefs)
    ELSE IF ~IsNil(response.value)
         THEN SchemaSeeds(processContentSchemas(Val(response.value).content, mimeTypes))
         ELSE NoRefs

\* processOperationResponses
processOperationResponses(doc, operation, mimeTypes) ==
    RefsJoinAll({ processOperationResponse(doc, operation.responses[st], mimeTypes)
                : st \in DOMAIN operation.responses })

\* collectReferencesFromOperation: request body, then parameters, then
\* responses; the first error ends the collection.
collectReferencesFromOperation(doc, operation, mimeTypes) ==
    RefsThen(processOperationRequestBody(doc, operation, mimeTypes),
        RefsThen(processOperationParameters(doc, operation),
                 processOperationResponses(doc, operation, mimeTypes)))

\* The Ref of a node that has one, with the context string the resolver
\* gives for the place of the node: a reference site.
RefOf(node, context) ==
    IF ~IsNil(node) /\ Val(node).ref # NoRef
    THEN {[ref |-> Val(node).ref, context |-> context]}
    ELSE {}

\* The Items node of the Value of a node, when there is one.
ItemsOf(node) == IF ~IsNil(node.value) THEN Val(node.value).items ELSE Nil

\* The Properties map of the Value of a node.
PropertiesOf(node) ==
    IF ~IsNil(node.value) THEN Val(node.value).properties ELSE <<>>

\* processSchemaItems / processItemProperties: Items.Ref, and for each property
\* of an inline Items value its Ref and the Ref of its own Items.  A context
\* is the sequence of the segments the code joins with dots.
processSchemaItems(schema, schemaName) ==
    LET items == Val(schema.value).items
    IN IF IsNil(items) THEN {}
       ELSE RefOf(items, <<schemaName, "items">>)
            \cup UNION { RefOf(Some(PropertiesOf(Val(items))[p]),
                               <<schemaName, "items", "properties", p>>)
                         \cup RefOf(ItemsOf(PropertiesOf(Val(items))[p]),
                                    <<schemaName, "items", "properties", p, "items">>)
                       : p \in DOMAIN PropertiesOf(Val(items)) }

\* processNestedProperties: for each nested property its Ref and the Ref of
\* its Items; the context is "%s.properties.%s.%s" and the same with ".items".
processNestedProperties(propSchema, schemaName, propName) ==
    UNION { RefOf(Some(PropertiesOf(propSchema)[q]),
                  <<schemaName, "properties", propName, q>>)
            \cup RefOf(ItemsOf(PropertiesOf(propSchema)[q]),
                       <<schemaName, "properties", propName, q, "items">>)
          : q \in DOMAIN PropertiesOf(propSchema) }

\* processSchemaProperties / processPropertyRef / processNestedPropertyObjects:
\* for each property its Ref, the Ref of its Items and its nested properties.
processSchemaProperties(schema, schemaName) ==
    UNION { RefOf(Some(PropertiesOf(schema)[p]), <<schemaName, "properties", p>>)
            \cup RefOf(ItemsOf(PropertiesOf(schema)[p]),
                       <<schemaName, "properties", p, "items">>)
            \cup processNestedProperties(PropertiesOf(schema)[p], schemaName, p)
          : p \in DOMAIN PropertiesOf(schema) }

\* processCompositionSchemas: the Ref of each element of allOf, oneOf, anyOf,
\* with the context "%s.%s[%d]".
processCompositionSchemas(schema, schemaName) ==
    UNION { UNION { RefOf(Some(Val(schema.value)[list][i]),
                          <<schemaName, list \o "[" \o ToString(i - 1) \o "]">>)
                  : i \in 1..Len(Val(schema.value)[list]) }
          : list \in {"allOf", "oneOf", "anyOf"} }

\* The reference sites resolveSchemaRefsRecursively follows out of one
\* component schema: its own Ref and, when it has a Value, those of the
\* three passes above.
ResolvedRefsOf(schema, schemaName) ==
    RefOf(Some(schema), <<schemaName>>)
        \cup IF IsNil(schema.value) THEN {}
             ELSE processSchemaItems(schema, schemaName)
                    \cup processSchemaProperties(schema, schemaName)
                    \cup processCompositionSchemas(schema, schemaName)

\* resolveSchemaRefsRecursively: processed is the map that stops the recursion;
\* a name absent from the store or a malformed reference ends it with ok =
\* FALSE and the error in errs; the error for an absent name carries the
\* context of the site that named it.  The schemas copied into the filtered
\* document are the processed names found in the store.
RECURSIVE resolveSchemaRefsRecursively(_, _, _, _)
RECURSIVE ResolveEach(_, _, _)
resolveSchemaRefsRecursively(doc, schemaName, processed, parentContext) ==
    IF schemaName \in processed THEN [ok |-> TRUE, processed |-> processed, errs |-> {}]
    ELSE IF schemaName \notin DOMAIN doc.components.schemas
         THEN [ok |-> FALSE, processed |-> processed \cup {schemaName},
               errs |-> {SchemaNotFoundError(schemaName, parentContext)}]
         ELSE ResolveEach(doc,
                          ResolvedRefsOf(doc.components.schemas[schemaName], schemaName),
                          processed \cup {schemaName})

ResolveEach(doc, refs, processed) ==
    IF refs = {} THEN [ok |-> TRUE, processed |-> processed, errs |-> {}]
    ELSE LET r == CHOOSE x \in refs : TRUE
             v == validateRef(r.ref)
         IN IF ~v.ok THEN [ok |-> FALSE, processed |-> processed, errs |-> {RefError(r.ref)}]
            ELSE Bind2(resolveSchemaRefsRecursively(doc, v.name, processed, r.context),
                       refs \ {r},
                    LAMBDA res, rest :
                        IF ~res.ok THEN res ELSE ResolveEach(doc, rest, res.processed))

\* The part of a component map with the given names.
Restrict(f, names) == [n \in names \cap DOMAIN f |-> f[n]]

\* resolveAllReferences with resolveRequestBodyRefs, resolveParameterRefs and
\* resolveResponseRefs: every seeded schema is resolved with a fresh processed
\* map, then every seeded request body, parameter and response is looked up in
\* the input and copied; a missing one is an error.
resolveAllReferences(doc, refs) ==
    LET resolved == [n \in refs.schemas |-> resolveSchemaRefsRecursively(doc, n, {}, <<"root">>)]
        missing(kind, names, store) ==
            { ComponentNotFoundError(kind, n) : n \in names \ DOMAIN store }
        schemaErrs == UNION { resolved[n].errs : n \in refs.schemas }
        requestBodyErrs == missing("request body", refs.requestBodies, doc.components.requestBodies)
        parameterErrs == missing("parameter", refs.parameters, doc.components.parameters)
        responseErrs == missing("response", refs.responses, doc.components.responses)
    IN [ok |-> /\ \A n \in refs.schemas : resolved[n].ok
               /\ refs.requestBodies \subseteq DOMAIN doc.components.requestBodies
               /\ refs.parameters \subseteq DOMAIN doc.components.parameters
               /\ refs.responses \subseteq DOMAIN doc.components.responses,
        errs |-> IF schemaErrs # {} THEN schemaErrs
                 ELSE IF requestBodyErrs # {} THEN requestBodyErrs
                 ELSE IF parameterErrs # {} THEN parameterErrs
                 ELSE responseErrs,
        schemas |-> Restrict(doc.components.schemas,
                             UNION {resolved[n].processed : n \in refs.schemas}),
        requestBodies |-> Restrict(doc.components.requestBodies, refs.requestBodies),
        parameters |-> Restrict(doc.components.parameters, refs.parameters),
        responses |-> Restrict(doc.components.responses, refs.responses)]

\* ------------------------------------------------------------------------
\* Pruning
\* ------------------------------------------------------------------------
\* The walks of the schemas of every media type of a content map.
ContentWalks(content) ==
    { extractSchemaReferences(Val(content[mt].schema))
    : mt \in { m \in DOMAIN content : ~IsNil(content[m].schema) } }

\* The walks of one pass of the loop of findTransitivelyUsedComponents: over
\* the used schemas, parameters, request bodies and responses that are in the
\* filtered document.
WalksOnce(components, usage) ==
    { extractSchemaReferences(components.schemas[n])
    : n \in usage.schemas \cap DOMAIN components.schemas }
    \cup { extractSchemaReferences(Val(Val(components.parameters[n].value).schema))
         : n \in { m \in usage.parameters \cap DOMAIN components.parameters :
                     /\ ~IsNil(components.parameters[m].value)
                     /\ ~IsNil(Val(components.parameters[m].value).schema) } }
    \cup UNION { ContentWalks(Val(components.requestBodies[n].value).content)
               : n \in { m \in usage.requestBodies \cap DOMAIN components.requestBodies :
                           ~IsNil(components.requestBodies[m].value) } }
    \cup UNION { ContentWalks(Val(components.responses[n].value).content)
               : n \in { m \in usage.responses \cap DOMAIN components.responses :
                           ~IsNil(components.responses[m].value) } }

\* One pass: the schema names of the walks that returned nil (the names of a
\* walk that returned an error are dropped), and whether a walk exhausts the
\* stack.
UsedOnce(components, usage) ==
    Bind(WalksOnce(components, usage), LAMBDA ws :
        [found |-> UNION { w.refs : w \in { x \in ws : x.ok } },
         crash |-> \E w \in ws : w.crash])

\* findTransitivelyUsedComponents: repeat until no new schema name is found.
RECURSIVE findTransitivelyUsedComponents(_, _)
findTransitivelyUsedComponents(components, usage) ==
    Bind2(usage, UsedOnce(components, usage), LAMBDA used, pass :
        IF pass.crash THEN [used EXCEPT !.crash = TRUE]
        ELSE IF pass.found \subseteq used.schemas THEN used
        ELSE findTransitivelyUsedComponents(components,
                [used EXCEPT !.schemas = used.schemas \cup pass.found]))

\* pruneUnusedComponents: delete from the four maps of the filtered document
\* every entry whose name is not used.  crash: the search for the used
\* components exhausts the stack.
pruneUnusedComponents(components, processedRefs) ==
    Bind2(components, findTransitivelyUsedComponents(components, processedRefs),
        LAMBDA kept, usage :
            [crash |-> usage.crash,
             components |->
                [kept EXCEPT
                   !.schemas = Restrict(kept.schemas, usage.schemas),
                   !.parameters = Restrict(kept.parameters, usage.parameters),
                   !.requestBodies = Restrict(kept.requestBodies, usage.requestBodies),
                   !.responses = Restrict(kept.responses, usage.responses)]])

\* ------------------------------------------------------------------------
\* Operation matcher
\* ------------------------------------------------------------------------
\* A variant of pathMatchesFilter that compares the whole path.
pathMatchesFilterExact(path, pathFilters) ==
    \E i \in 1..Len(pathFilters) : path = pathFilters[i]

\* pathMatchesFilter: some filter is a prefix of the path.
pathMatchesFilter(path, pathFilters) ==
    \E i \in 1..Len(pathFilters) : HasPrefix(path, pathFilters[i])

\* A variant of checkOperationMatches that compares the method name with ==
\* instead of strings.EqualFold.
checkOperationMatchesExactCase(operation, method, opts) ==
    LET byOperation ==
            IF Len(opts.operations) > 0
            THEN \/ operation.operationId \in Range(opts.operations)
                 \/ \E i \in 1..Len(opts.operations) : opts.operations[i] = method
            ELSE TRUE
        byTag ==
            IF Len(opts.tags) > 0 /\ byOperation
            THEN \E i \in 1..Len(operation.tags) : operation.tags[i] \in Range(opts.tags)
            ELSE TRUE
    IN /\ byOperation /\ byTag
       /\ \/ Len(opts.operations) > 0
          \/ Len(opts.tags) > 0
          \/ (Len(opts.operations) = 0 /\ Len(opts.tags) = 0 /\ Len(opts.paths) = 0)

\* A variant of checkOperationMatches whose last condition forgets Paths: with
\* Operations and Tags empty every operation matches.
checkOperationMatchesAnyPath(operation, method, opts) ==
    LET byOperation ==
            IF Len(opts.operations) > 0
            THEN \/ operation.operationId \in Range(opts.operations)
                 \/ \E i \in 1..Len(opts.operations) : EqualFold(opts.operations[i], method)
            ELSE TRUE
        byTag ==
            IF Len(opts.tags) > 0 /\ byOperation
            THEN \E i \in 1..Len(operation.tags) : operation.tags[i] \in Range(opts.tags)
            ELSE TRUE
    IN byOperation /\ byTag

\* checkOperationMatches
checkOperationMatches(operation, method, opts) ==
    LET byOperation ==
            IF Len(opts.operations) > 0
            THEN \/ operation.operationId \in Range(opts.operations)
                 \/ \E i \in 1..Len(opts.operations) : EqualFold(opts.operations[i], method)
            ELSE TRUE
        byTag ==
            IF Len(opts.tags) > 0 /\ byOperation
            THEN \E i \in 1..Len(operation.tags) : operation.tags[i] \in Range(opts.tags)
            ELSE TRUE
        operationMatches == byOperation /\ byTag
    IN /\ operationMatches
       /\ \/ Len(opts.operations) > 0
          \/ Len(opts.tags) > 0
          \/ (Len(opts.operations) = 0 /\ Len(opts.tags) = 0 /\ Len(opts.paths) = 0)

\* ------------------------------------------------------------------------
\* Document assembly
\* ------------------------------------------------------------------------
\* &openapi3.PathItem{}
EmptyPathItem == [summary |-> "", parameters |-> <<>>, ops |-> <<>>]

\* The tags of a set of operations of a path item.
TagsOf(pathItem, methods) ==
    UNION { Range(Operations(pathItem)[m].tags) : m \in methods }

\* processAllOperationsInPath: collect the references and the tags of every
\* operation of the path item.
processAllOperationsInPath(doc, pathItem, mimeTypes) ==
    [refs |-> RefsJoinAll({ collectReferencesFromOperation(doc, Operations(pathItem)[m], mimeTypes)
                          : m \in DOMAIN Operations(pathItem) }),
     tags |-> TagsOf(pathItem, DOMAIN Operations(pathItem))]

\* findMatchingOperations: the operations checkOperationMatches accepts, with
\* their references and tags.
findMatchingOperations(doc, pathItem, opts, mimeTypes) ==
    LET matched == { m \in DOMAIN Operations(pathItem) :
                        checkOperationMatches(Operations(pathItem)[m], m, opts) }
    IN [matchedOps |-> [m \in matched |-> Operations(pathItem)[m]],
        refs |-> RefsJoinAll({ collectReferencesFromOperation(doc, Operations(pathItem)[m], mimeTypes)
                             : m \in matched }),
        tags |-> TagsOf(pathItem, matched)]

\* A variant of processPath that looks for matching operations only when no
\* path prefix is given.
processPathPrefixFirst(doc, path, opts, mimeTypes) ==
    LET pathItem == doc.paths[path]
    IN IF Len(opts.paths) > 0
       THEN IF pathMatchesFilter(path, opts.paths)
            THEN Bind(processAllOperationsInPath(doc, pathItem, mimeTypes), LAMBDA all :
                    [item |-> Some(pathItem), refs |-> all.refs, tags |-> all.tags])
            ELSE [item |-> Nil, refs |-> NoRefs, tags |-> {}]
       ELSE Bind(findMatchingOperations(doc, pathItem, opts, mimeTypes), LAMBDA found :
                [item |-> IF DOMAIN found.matchedOps # {}
                          THEN Some([EmptyPathItem EXCEPT !.ops = found.matchedOps])
                          ELSE Nil,
                 refs |-> found.refs,
                 tags |-> found.tags])

\* A variant of processPath whose second branch keeps the input's PathItem
\* and only narrows its operations.
processPathKeepingFields(doc, path, opts, mimeTypes) ==
    LET pathItem == doc.paths[path]
    IN IF Len(opts.paths) > 0 /\ pathMatchesFilter(path, opts.paths)
       THEN Bind(processAllOperationsInPath(doc, pathItem, mimeTypes), LAMBDA all :
                [item |-> Some(pathItem), refs |-> all.refs, tags |-> all.tags])
       ELSE Bind(findMatchingOperations(doc, pathItem, opts, mimeTypes), LAMBDA found :
                [item |-> IF DOMAIN found.matchedOps # {}
                          THEN Some([pathItem EXCEPT !.ops = found.matchedOps])
                          ELSE Nil,
                 refs |-> found.refs,
                 tags |-> found.tags])

\* The body of the loop of processPathsAndOperations for one path: the path
\* item put into the filtered document (Nil when none is), the references and
\* the tags collected.
processPath(doc, path, opts, mimeTypes) ==
    LET pathItem == doc.paths[path]
    IN IF Len(opts.paths) > 0 /\ pathMatchesFilter(path, opts.paths)
       THEN Bind(processAllOperationsInPath(doc, pathItem, mimeTypes), LAMBDA all :
                [item |-> Some(pathItem), refs |-> all.refs, tags |-> all.tags])
       ELSE Bind(findMatchingOperations(doc, pathItem, opts, mimeTypes), LAMBDA found :
                [item |-> IF DOMAIN found.matchedOps # {}
                          THEN Some([EmptyPathItem EXCEPT !.ops = found.matchedOps])
                          ELSE Nil,
                 refs |-> found.refs,
                 tags |-> found.tags])

\* processPathsAndOperations: every path of the input.
processPathsAndOperations(doc, opts, mimeTypes) ==
    LET each == [p \in DOMAIN doc.paths |-> processPath(doc, p, opts, mimeTypes)]
        kept == { p \in DOMAIN doc.paths : ~IsNil(each[p].item) }
    IN [paths |-> [p \in kept |-> Val(each[p].item)],
        refs |-> RefsJoinAll({ each[p].refs : p \in DOMAIN doc.paths }),
        usedTagNames |-> UNION { each[p].tags : p \in DOMAIN doc.paths }]

\* processUsedTags: the entries of the input's tag list whose name is used, in
\* the order of the input; no list at all when no tag is used.
RECURSIVE SelectTags(_, _)
SelectTags(tags, usedTagNames) ==
    IF tags = <<>> THEN <<>>
    ELSE (IF Head(tags).name \in usedTagNames THEN <<Head(tags)>> ELSE <<>>)
            \o SelectTags(Tail(tags), usedTagNames)

\* A variant of processUsedTags that copies the whole tag list.
processUsedTagsAll(doc, usedTagNames) ==
    IF usedTagNames # {} THEN doc.tags ELSE <<>>

processUsedTags(doc, usedTagNames) ==
    IF usedTagNames # {} THEN SelectTags(doc.tags, usedTagNames) ELSE <<>>

\* A variant of createFilteredSpec that leaves the component maps of every
\* kind empty.
createFilteredSpecBare(doc) ==
    [openapi |-> doc.openapi,
     info |-> doc.info,
     servers |-> doc.servers,
     externalDocs |-> doc.externalDocs,
     security |-> <<>>,
     tags |-> <<>>,
     paths |-> <<>>,
     components |-> [schemas |-> <<>>,
                     parameters |-> <<>>,
                     requestBodies |-> <<>>,
                     responses |-> <<>>,
                     headers |-> <<>>,
                     securitySchemes |-> <<>>,
                     examples |-> <<>>,
                     links |-> <<>>,
                     callbacks |-> <<>>]]

\* createFilteredSpec: the passengers copied from the input, an empty security
\* list, no paths, no tags and four empty component maps.
createFilteredSpec(doc) ==
    [openapi |-> doc.openapi,
     info |-> doc.info,
     servers |-> doc.servers,
     externalDocs |-> doc.externalDocs,
     security |-> <<>>,
     tags |-> <<>>,
     paths |-> <<>>,
     components |-> [schemas |-> <<>>,
                     parameters |-> <<>>,
                     requestBodies |-> <<>>,
                     responses |-> <<>>,
                     headers |-> doc.components.headers,
                     securitySchemes |-> doc.components.securitySchemes,
                     examples |-> doc.components.examples,
                     links |-> doc.components.links,
                     callbacks |-> doc.components.callbacks]]

\* A variant of SharedMaps in which the filtered spec is also given the
\* schema map of the input.
SharedMapsWithSchemas ==
    {"schemas", "headers", "securitySchemes", "examples", "links", "callbacks"}

\* The component maps of the filtered spec that are the maps of the input, not
\* maps of their own: createFilteredSpec makes the maps of the four kinds it
\* fills and assigns the others from doc.Components.
SharedMaps == {"headers", "securitySchemes", "examples", "links", "callbacks"}

\* The input document once the call has written the component maps of the
\* filtered spec: a map the two share holds what the filtered spec's holds.
InputAfter(doc, components) ==
    [doc EXCEPT !.components =
        [k \in DOMAIN doc.components |->
            IF k \in SharedMaps THEN components[k] ELSE doc.components[k]]]

\* FilterOptions{}
FilterOptions(paths, operations, tags, pruneComponents) ==
    [paths |-> paths, operations |-> operations, tags |-> tags,
     pruneComponents |-> pruneComponents]

\* applyFilter: the filtered document, or no document and ok = FALSE when a
\* collector or a resolver returned an error.  processedRefs and usedTagNames
\* are the function's local maps as processPathsAndOperations leaves them.
applyFilter(doc, opts) ==
    Bind(findAllMimeTypes(doc), LAMBDA mimeTypes :
    Bind(processPathsAndOperations(doc, opts, mimeTypes), LAMBDA selected :
    Bind(resolveAllReferences(doc, selected.refs), LAMBDA resolved :
    Bind(createFilteredSpec(doc), LAMBDA filtered :
    Bind(IF selected.refs.ok /\ resolved.ok /\ opts.pruneComponents
         THEN pruneUnusedComponents([filtered.components EXCEPT
                                        !.schemas = resolved.schemas,
                                        !.requestBodies = resolved.requestBodies,
                                        !.parameters = resolved.parameters,
                                        !.responses = resolved.responses],
                                    selected.refs)
         ELSE [crash |-> FALSE,
               components |-> [filtered.components EXCEPT
                                  !.schemas = resolved.schemas,
                                  !.requestBodies = resolved.requestBodies,
                                  !.parameters = resolved.parameters,
                                  !.responses = resolved.responses]],
         LAMBDA pruned :
        LET ok == selected.refs.ok /\ resolved.ok /\ ~pruned.crash
        IN [ok |-> ok,
            crash |-> selected.refs.crash \/ pruned.crash,
            errs |-> IF ~selected.refs.ok THEN selected.refs.errs ELSE resolved.errs,
            doc |-> IF ~ok THEN Nil
                    ELSE Some([filtered EXCEPT
                            !.paths = selected.paths,
                            !.tags = processUsedTags(doc, selected.usedTagNames),
                            !.components = pruned.components]),
            input |-> InputAfter(doc, pruned.components),
            processedRefs |-> selected.refs,
            usedTagNames |-> selected.usedTagNames])))))

\* What a call of applyFilter can do: return the document and nil; return nil
\* and one of the errors; or never return, the Go runtime ending the program
\* on stack exhaustion (returned = FALSE).
Outcomes(r) ==
    Bind(r, LAMBDA x :
        IF x.ok
        THEN { [ok |-> TRUE, returned |-> TRUE, err |-> Nil, doc |-> x.doc,
                input |-> Some(x.input), processedRefs |-> x.processedRefs, usedTagNames |-> x.usedTagNames] }
        ELSE { [ok |-> FALSE, returned |-> TRUE, err |-> Some(e), doc |-> Nil,
                input |-> Some(x.input), processedRefs |-> x.processedRefs, usedTagNames |-> x.usedTagNames]
             : e \in x.errs }
             \cup { [ok |-> FALSE, returned |-> FALSE, err |-> Nil, doc |-> Nil,
                     input |-> Some(x.input), processedRefs |-> x.processedRefs, usedTagNames |-> x.usedTagNames]
                   : c \in { y \in {x.crash} : y } })

\* ------------------------------------------------------------------------
\* The call with the iteration orders of its maps given
\* ------------------------------------------------------------------------
\* The orders in which the elements of a set can come.
OrdersOf(S) ==
    { f \in [1..Cardinality(S) -> S] : \A i, j \in DOMAIN f : i # j => f[i] # f[j] }

\* The keys of a map in the order a range statement takes them, the order of
\* all keys being given.
InOrder(keys, perm) == SelectSeq(perm, LAMBDA k : k \in keys)

\* The least number of a set.
Least(S) == CHOOSE x \in S : \A y \in S : x <= y

\* A variant of the loop that goes on after an error and returns what its
\* last step returned.
RefsInOrderLastWins(steps) ==
    IF steps = <<>> THEN NoRefs
    ELSE IF steps[Len(steps)].ok
         THEN RefsJoinAll({ s \in Range(steps) : s.ok })
         ELSE steps[Len(steps)]

\* A loop that returns at the first error: the steps are given in the order
\* of the iteration; the outcome is that of the first step that did not
\* return nil, and the names of all steps when every step returned nil.
RefsInOrder(steps) ==
    LET failing == { i \in DOMAIN steps : ~steps[i].ok }
    IN IF failing = {} THEN RefsJoinAll(Range(steps))
       ELSE steps[Least(failing)]

\* processOperationResponses, the statuses taken in the given order.
processOperationResponsesInOrder(doc, operation, mimeTypes, orders) ==
    LET statuses == InOrder(DOMAIN operation.responses, orders.statuses)
    IN RefsInOrder([i \in 1..Len(statuses) |->
            processOperationResponse(doc, operation.responses[statuses[i]], mimeTypes)])

\* collectReferencesFromOperation
collectReferencesFromOperationInOrder(doc, operation, mimeTypes, orders) ==
    RefsThen(processOperationRequestBody(doc, operation, mimeTypes),
        RefsThen(processOperationParameters(doc, operation),
                 processOperationResponsesInOrder(doc, operation, mimeTypes, orders)))

\* The references of the operations of a path item in the given slots, the
\* slots taken in the given order: the loops of processAllOperationsInPath
\* and of findMatchingOperations.
collectInOrder(doc, pathItem, methods, mimeTypes, orders) ==
    RefsInOrder([i \in 1..Len(methods) |->
        collectReferencesFromOperationInOrder(doc, Operations(pathItem)[methods[i]],
                                              mimeTypes, orders)])

\* The body of the loop of processPathsAndOperations for one path.
processPathInOrder(doc, path, opts, mimeTypes, orders) ==
    LET pathItem == doc.paths[path]
        all == InOrder(DOMAIN Operations(pathItem), orders.methods)
        matched == SelectSeq(all, LAMBDA m :
                        checkOperationMatches(Operations(pathItem)[m], m, opts))
    IN IF Len(opts.paths) > 0 /\ pathMatchesFilter(path, opts.paths)
       THEN [item |-> Some(pathItem),
             refs |-> collectInOrder(doc, pathItem, all, mimeTypes, orders),
             tags |-> TagsOf(pathItem, Range(all))]
       ELSE [item |-> IF matched # <<>>
                      THEN Some([EmptyPathItem EXCEPT !.ops =
                                    [m \in Range(matched) |-> Operations(pathItem)[m]]])
                      ELSE Nil,
             refs |-> collectInOrder(doc, pathItem, matched, mimeTypes, orders),
             tags |-> TagsOf(pathItem, Range(matched))]

\* processPathsAndOperations, the paths taken in the given order.
processPathsAndOperationsInOrder(doc, opts, mimeTypes, orders) ==
    LET paths == InOrder(DOMAIN doc.paths, orders.paths)
        each == [p \in Range(paths) |-> processPathInOrder(doc, p, opts, mimeTypes, orders)]
        kept == { p \in Range(paths) : ~IsNil(each[p].item) }
    IN [paths |-> [p \in kept |-> Val(each[p].item)],
        refs |-> RefsInOrder([i \in 1..Len(paths) |-> each[paths[i]].refs]),
        usedTagNames |-> UNION { each[p].tags : p \in Range(paths) }]

\* The elements of sequences, one sequence after the other.
RECURSIVE Flatten(_)
Flatten(seqs) == IF seqs = <<>> THEN <<>> ELSE Head(seqs) \o Flatten(Tail(seqs))

\* The reference site of a node, as a sequence of at most one site.
SiteOf(node, context) ==
    IF RefOf(node, context) = {} THEN <<>> ELSE <<CHOOSE s \in RefOf(node, context) : TRUE>>

\* The sites of the properties of a node, the properties taken in the given
\* order: for each its Ref, then the Ref of its Items.  The context of a
\* property is the prefix with its name.
PropertySites(node, prefix, orders) ==
    LET names == InOrder(DOMAIN PropertiesOf(node), orders.properties)
    IN [i \in 1..Len(names) |->
            SiteOf(Some(PropertiesOf(node)[names[i]]), Append(prefix, names[i]))
            \o SiteOf(ItemsOf(PropertiesOf(node)[names[i]]),
                      prefix \o <<names[i], "items">>)]

\* The reference sites resolveSchemaRefsRecursively follows out of one
\* component schema, in the order in which it comes to them: its own Ref,
\* processSchemaItems, processSchemaProperties, processCompositionSchemas.
ResolvedRefsInOrder(schema, schemaName, orders) ==
    LET v == Val(schema.value)
        names == InOrder(DOMAIN PropertiesOf(schema), orders.properties)
        ofItems ==
            IF IsNil(v.items) THEN <<>>
            ELSE SiteOf(v.items, <<schemaName, "items">>)
                 \o Flatten(PropertySites(Val(v.items),
                                          <<schemaName, "items", "properties">>, orders))
        ofProperties ==
            Flatten([i \in 1..Len(names) |->
                SiteOf(Some(PropertiesOf(schema)[names[i]]),
                       <<schemaName, "properties", names[i]>>)
                \o SiteOf(ItemsOf(PropertiesOf(schema)[names[i]]),
                          <<schemaName, "properties", names[i], "items">>)
                \o Flatten(PropertySites(PropertiesOf(schema)[names[i]],
                                         <<schemaName, "properties", names[i]>>, orders))])
        ofComposition ==
            Flatten([k \in 1..3 |->
                LET list == <<"allOf", "oneOf", "anyOf">>[k]
                IN Flatten([i \in 1..Len(v[list]) |->
                        SiteOf(Some(v[list][i]),
                               <<schemaName, list \o "[" \o ToString(i - 1) \o "]">>)])])
    IN SiteOf(Some(schema), <<schemaName>>)
       \o IF IsNil(schema.value) THEN <<>>
          ELSE ofItems \o ofProperties \o ofComposition

\* resolveSchemaRefsRecursively, the sites taken in that order
RECURSIVE resolveSchemaRefsRecursivelyInOrder(_, _, _, _, _)
RECURSIVE ResolveEachInOrder(_, _, _, _)
resolveSchemaRefsRecursivelyInOrder(doc, schemaName, processed, parentContext, orders) ==
    IF schemaName \in processed THEN [ok |-> TRUE, processed |-> processed, errs |-> {}]
    ELSE IF schemaName \notin DOMAIN doc.components.schemas
         THEN [ok |-> FALSE, processed |-> processed \cup {schemaName},
               errs |-> {SchemaNotFoundError(schemaName, parentContext)}]
         ELSE ResolveEachInOrder(doc,
                  ResolvedRefsInOrder(doc.components.schemas[schemaName], schemaName, orders),
                  processed \cup {schemaName}, orders)

ResolveEachInOrder(doc, sites, processed, orders) ==
    IF sites = <<>> THEN [ok |-> TRUE, processed |-> processed, errs |-> {}]
    ELSE LET v == validateRef(Head(sites).ref)
         IN IF ~v.ok
            THEN [ok |-> FALSE, processed |-> processed, errs |-> {RefError(Head(sites).ref)}]
            ELSE Bind(resolveSchemaRefsRecursivelyInOrder(doc, v.name, processed,
                                                          Head(sites).context, orders),
                    LAMBDA res :
                        IF ~res.ok THEN res
                        ELSE ResolveEachInOrder(doc, Tail(sites), res.processed, orders))

\* The error of the first name, in the given order, that a component map
\* does not hold: the loops of resolveRequestBodyRefs, resolveParameterRefs
\* and resolveResponseRefs.
FirstMissing(kind, names, store, orders) ==
    LET keys == InOrder(names, orders.names)
        missing == { i \in 1..Len(keys) : keys[i] \notin DOMAIN store }
    IN IF missing = {} THEN {} ELSE {ComponentNotFoundError(kind, keys[Least(missing)])}

\* resolveAllReferences, the seeded names taken in the given order.
resolveAllReferencesInOrder(doc, refs, orders) ==
    LET seeds == InOrder(refs.schemas, orders.names)
        resolved == [i \in 1..Len(seeds) |->
                        resolveSchemaRefsRecursivelyInOrder(doc, seeds[i], {}, <<"root">>, orders)]
        failing == { i \in 1..Len(seeds) : ~resolved[i].ok }
        requestBodyErrs == FirstMissing("request body", refs.requestBodies,
                                        doc.components.requestBodies, orders)
        parameterErrs == FirstMissing("parameter", refs.parameters,
                                      doc.components.parameters, orders)
        responseErrs == FirstMissing("response", refs.responses,
                                     doc.components.responses, orders)
        errs == IF failing # {} THEN resolved[Least(failing)].errs
                ELSE IF requestBodyErrs # {} THEN requestBodyErrs
                ELSE IF parameterErrs # {} THEN parameterErrs
                ELSE responseErrs
    IN [ok |-> errs = {},
        errs |-> errs,
        schemas |-> Restrict(doc.components.schemas,
                             UNION { resolved[i].processed : i \in 1..Len(seeds) }),
        requestBodies |-> Restrict(doc.components.requestBodies, refs.requestBodies),
        parameters |-> Restrict(doc.components.parameters, refs.parameters),
        responses |-> Restrict(doc.components.responses, refs.responses)]

\* applyFilter, the iteration orders of its loops given.
applyFilterInOrder(doc, opts, orders) ==
    Bind(findAllMimeTypes(doc), LAMBDA mimeTypes :
    Bind(processPathsAndOperationsInOrder(doc, opts, mimeTypes, orders), LAMBDA selected :
    Bind(resolveAllReferencesInOrder(doc, selected.refs, orders), LAMBDA resolved :
    Bind(createFilteredSpec(doc), LAMBDA filtered :
    Bind(IF selected.refs.ok /\ resolved.ok /\ opts.pruneComponents
         THEN pruneUnusedComponents([filtered.components EXCEPT
                                        !.schemas = resolved.schemas,
                                        !.requestBodies = resolved.requestBodies,
                                        !.parameters = resolved.parameters,
                                        !.responses = resolved.responses],
                                    selected.refs)
         ELSE [crash |-> FALSE,
               components |-> [filtered.components EXCEPT
                                  !.schemas = resolved.schemas,
                                  !.requestBodies = resolved.requestBodies,
                                  !.parameters = resolved.parameters,
                                  !.responses = resolved.responses]],
         LAMBDA pruned :
        LET ok == selected.refs.ok /\ resolved.ok /\ ~pruned.crash
        IN [ok |-> ok,
            crash |-> selected.refs.crash \/ pruned.crash,
            errs |-> IF ~selected.refs.ok THEN selected.refs.errs ELSE resolved.errs,
            doc |-> IF ~ok THEN Nil
                    ELSE Some([filtered EXCEPT
                            !.paths = selected.paths,
                            !.tags = processUsedTags(doc, selected.usedTagNames),
                            !.components = pruned.components]),
            input |-> InputAfter(doc, pruned.components),
            processedRefs |-> selected.refs,
            usedTagNames |-> selected.usedTagNames])))))

\* ------------------------------------------------------------------------
\* Input documents
\* ------------------------------------------------------------------------
\* The longest list of path prefixes a first call is given.
MaxPrefixes == 1

\* &openapi3.Schema{}
EmptySchema ==
    [items |-> Nil, properties |-> <<>>, allOf |-> <<>>, oneOf |-> <<>>,
     anyOf |-> <<>>, not |-> Nil]

\* &openapi3.SchemaRef{Value: v}
Inline(v) == [ref |-> NoRef, value |-> Some(v)]

\* &openapi3.SchemaRef{Ref: "#/components/schemas/<name>"}
SchemaRefTo(name) == [ref |-> RefTo("schemas", name), value |-> Nil]

\* The component schemas an input may hold under the name "A": a schema
\* without references, and schemas that refer to "B" from one field.
SchemaShapes ==
    { Inline(EmptySchema),
      Inline([EmptySchema EXCEPT !.properties = [p \in {"b"} |-> SchemaRefTo("B")]]),
      Inline([EmptySchema EXCEPT !.not = Some(SchemaRefTo("B"))]) }

\* The schema maps of the inputs: "A" of each shape with "B", and "A" alone.
SchemaStores ==
    { [n \in {"A", "B"} |-> IF n = "A" THEN a ELSE Inline(EmptySchema)] : a \in SchemaShapes }
        \cup { [n \in {"A"} |-> a] : a \in SchemaShapes \ {Inline(EmptySchema)} }

Json == <<"application", "json">>

\* A content map with one media type whose schema is a reference.
JsonContent(name) == [mt \in {Json} |-> [schema |-> Some(SchemaRefTo(name))]]

\* The other component maps of the inputs.
ParameterStore ==
    [n \in {"P"} |-> [ref |-> NoRef, value |-> Some([schema |-> Some(SchemaRefTo("A"))])]]

RequestBodyStore ==
    [n \in {"RB"} |-> [ref |-> NoRef, value |-> Some([content |-> JsonContent("B")])]]

ResponseStore ==
    [n \in {"R"} |-> [ref |-> NoRef, value |-> Some([content |-> JsonContent("A")])]]

\* Strings the code looks into.
StrGET == <<"G", "E", "T">>

StrPOST == <<"P", "O", "S", "T">>

StrGetLower == <<"g", "e", "t">>

StrX == <<"x">>

StrEmpty == <<>>

\* The operations of the inputs.
OpList ==
    [operationId |-> StrX, tags |-> <<"u">>, parameters |-> <<>>, requestBody |-> Nil,
     responses |-> [st \in {"200"} |->
                       [ref |-> NoRef, value |-> Some([content |-> JsonContent("A")])]]]

OpCreate ==
    [operationId |-> StrEmpty, tags |-> <<"t">>, parameters |-> <<>>,
     requestBody |-> Some([ref |-> RefTo("requestBodies", "RB"), value |-> Nil]),
     responses |-> [st \in {"200"} |-> [ref |-> RefTo("responses", "R"), value |-> Nil]]]

OpShow ==
    [operationId |-> StrX, tags |-> <<"t", "u">>,
     parameters |-> <<[ref |-> RefTo("parameters", "P"), value |-> Nil]>>,
     requestBody |-> Nil, responses |-> <<>>]

OpOdd ==
    [operationId |-> StrGetLower, tags |-> <<>>,
     parameters |-> <<[ref |-> NoRef, value |-> Some([schema |-> Some(SchemaRefTo("B"))])]>>,
     requestBody |-> Nil, responses |-> <<>>]

\* The path items of the inputs: two operations, one operation under a
\* summary and path-level parameters, no operation at all, and one operation
\* whose id is the name of another method.
PathItems ==
    { [summary |-> "", parameters |-> <<>>,
       ops |-> [m \in {StrGET, StrPOST} |-> IF m = StrGET THEN OpList ELSE OpCreate]],
      [summary |-> "s",
       parameters |-> <<[ref |-> RefTo("parameters", "P"), value |-> Nil]>>,
       ops |-> [m \in {StrGET} |-> OpShow]],
      [summary |-> "s", parameters |-> <<>>, ops |-> <<>>],
      [summary |-> "", parameters |-> <<>>, ops |-> [m \in {StrPOST} |-> OpOdd]] }

\* The paths of the inputs, and the prefixes a filter names.
PathNames == { <<"/", "a">>, <<"/", "a", "b">> }

PathPrefixes == { <<"/", "a">>, <<"/", "a", "b">>, <<"/", "a", "/">> }

\* The Operations and the Tags lists a filter names.
OperationLists == { <<>>, <<StrGetLower>>, <<StrX>>, <<StrPOST, StrX>> }

TagFilters == { <<>>, <<"t">>, <<"u">> }

\* The tag lists of the inputs.
TagLists == { <<[name |-> "u"], [name |-> "t"]>>, <<[name |-> "t"]>> }

\* A document with the given tag list, paths and component maps.
\* A component map of a kind the filter does not look into, with one entry.
Passengers(name) == [n \in {name} |-> name]

Document(tl, ps, ss, params, bodies, resps) ==
    [openapi |-> "3.0.3", info |-> "info", servers |-> <<"https://api">>,
     externalDocs |-> Some("docs"),
     security |-> <<"apiKey">>,
     tags |-> tl,
     paths |-> ps,
     components |-> [schemas |-> ss,
                     parameters |-> params,
                     requestBodies |-> bodies,
                     responses |-> resps,
                     headers |-> Passengers("H"),
                     securitySchemes |-> Passengers("apiKey"),
                     examples |-> Passengers("E"),
                     links |-> Passengers("L"),
                     callbacks |-> Passengers("C")]]

\* Documents built by hand, as the tests build them: a reference node has a
\* Ref and no Value.
PlainDocuments ==
    { Document(tl, ps, ss, ParameterStore, RequestBodyStore, ResponseStore)
      : tl \in TagLists,
        ps \in [PathNames -> PathItems],
        ss \in SchemaStores }

\* A schema with one property that is the given node.
Holding(property, node) ==
    Inline([EmptySchema EXCEPT !.properties = [p \in {property} |-> node]])

\* Schema maps with a reference cycle, references with a Ref and no Value: "A"
\* and "B" refer to each other; "A" refers to itself.
CyclicStores ==
    { [n \in {"A", "B"} |-> IF n = "A" THEN Holding("b", SchemaRefTo("B"))
                                        ELSE Holding("a", SchemaRefTo("A"))],
      [n \in {"A", "B"} |-> IF n = "A" THEN Holding("a", SchemaRefTo("A"))
                                        ELSE Inline(EmptySchema)] }

\* The path items of the documents with a cycle.
CyclicPathItems ==
    { [summary |-> "", parameters |-> <<>>,
       ops |-> [m \in {StrGET, StrPOST} |-> IF m = StrGET THEN OpList ELSE OpCreate]],
      [summary |-> "", parameters |-> <<>>, ops |-> [m \in {StrGET} |-> OpShow]] }

CyclicDocuments ==
    { Document(<<[name |-> "t"]>>, ps, ss, ParameterStore, RequestBodyStore, ResponseStore)
      : ps \in [PathNames -> CyclicPathItems],
        ss \in CyclicStores }

\* A reference node as the loader of kin-openapi leaves it: the Ref string is
\* kept and Value points to the Schema of the component named.  In the cycle
\* of "A" and "B" the pointers form a cycle; it is unfolded here deeper than
\* the stack allows a walk to go.
RECURSIVE LoadedRef(_, _)
LoadedRef(name, depth) ==
    [ref |-> RefTo("schemas", name),
     value |-> IF depth = 0 THEN Nil
               ELSE Some([EmptySchema EXCEPT !.properties =
                            IF name = "A"
                            THEN [p \in {"b"} |-> LoadedRef("B", depth - 1)]
                            ELSE [p \in {"a"} |-> LoadedRef("A", depth - 1)]])]

LoadedDepth == MaxStack + 2

\* The component schema the loader leaves under a name of the cycle.
LoadedSchema(name) == [ref |-> NoRef, value |-> LoadedRef(name, LoadedDepth).value]

LoadedContent(name) == [mt \in {Json} |-> [schema |-> Some(LoadedRef(name, LoadedDepth))]]

\* GET with an inline response whose schema refers to "A".
OpListLoaded ==
    [OpList EXCEPT !.responses =
        [st \in {"200"} |-> [ref |-> NoRef, value |-> Some([content |-> LoadedContent("A")])]]]

LoadedPathItems ==
    { [summary |-> "", parameters |-> <<>>,
       ops |-> [m \in {StrGET, StrPOST} |-> IF m = StrGET THEN OpListLoaded ELSE OpCreate]],
      [summary |-> "", parameters |-> <<>>, ops |-> [m \in {StrGET} |-> OpShow]],
      [summary |-> "s", parameters |-> <<>>, ops |-> <<>>] }

\* Documents with the cycle of "A" and "B" as the loader returns them.
LoadedDocuments ==
    { Document(<<[name |-> "t"]>>, ps,
               [n \in {"A", "B"} |-> LoadedSchema(n)],
               [n \in {"P"} |-> [ref |-> NoRef,
                                  value |-> Some([schema |-> Some(LoadedRef("A", LoadedDepth))])]],
               [n \in {"RB"} |-> [ref |-> NoRef, value |-> Some([content |-> LoadedContent("B")])]],
               [n \in {"R"} |-> [ref |-> NoRef, value |-> Some([content |-> LoadedContent("A")])]])
      : ps \in [PathNames -> LoadedPathItems] }

Documents == PlainDocuments \cup CyclicDocuments \cup LoadedDocuments

\* The sequences over a set of at most n elements.
SeqsUpTo(S, n) == UNION { [1..k -> S] : k \in 0..n }

Options ==
    { FilterOptions(ps, os, ts, prune)
      : ps \in SeqsUpTo(PathPrefixes, MaxPrefixes),
        os \in OperationLists,
        ts \in TagFilters,
        prune \in BOOLEAN }

\* ------------------------------------------------------------------------
\* The caller of Client.Filter
\* ------------------------------------------------------------------------
VARIABLES
    doc,      \* the document given to the current call of Filter
    opts,     \* the FilterOptions given to the current call
    call,     \* "none" before the first call, then the kind of the last call
    result,   \* what the last call returned
    prev,     \* what the call before the last one returned
    source,   \* the input file of the command line: can it be loaded, is it valid
    cmd,      \* the flags of the command line
    pc,       \* where runFilter is
    log,      \* the steps runFilter has taken, in order
    file,     \* what has been written to the output file, if anything
    stdout,   \* what has been printed
    exit,     \* the error runFilter returned
    refString, \* a reference string given to validateRef
    parsed,   \* what validateRef returned for it
    walkIn,   \* a schema given to extractSchemaReferences
    walkOut,  \* what extractSchemaReferences returned and put into the map
    iteration \* the orders in which the current call iterates over its maps

libVars == <<doc, opts, call, result, prev>>

cliVars == <<source, cmd, pc, log, file, stdout, exit>>

refVars == <<refString, parsed, walkIn, walkOut, iteration>>

vars == <<doc, opts, call, result, prev, source, cmd, pc, log, file, stdout, exit,
          refString, parsed, walkIn, walkOut, iteration>>

NoResult ==
    [ok |-> FALSE, returned |-> FALSE, err |-> Nil, doc |-> Nil, input |-> Nil,
     processedRefs |-> NoRefs, usedTagNames |-> {}]

\* No command line is running.
NoCommandLine ==
    /\ source = [readable |-> FALSE, valid |-> FALSE, pathOrder |-> <<>>]
    /\ cmd = [format |-> <<>>, output |-> "", dryRun |-> FALSE, validateOnly |-> FALSE]
    /\ pc = "none"
    /\ log = <<>>
    /\ file = Nil
    /\ stdout = <<>>
    /\ exit = Nil

\* No reference string is being parsed, no schema is being walked and no
\* iteration order is given.
NoParse ==
    /\ refString = NoRef
    /\ parsed = Nil
    /\ walkIn = Nil
    /\ walkOut = Nil
    /\ iteration = <<>>

Init ==
    /\ doc \in Documents
    /\ opts \in Options
    /\ call = "none"
    /\ result = NoResult
    /\ prev = NoResult
    /\ NoCommandLine
    /\ NoParse

\* Client.Filter(doc, opts)
Filter ==
    /\ call = "none"
    /\ result' \in Outcomes(applyFilter(doc, opts))
    /\ doc' = Val(result'.input)
    /\ call' = "first"
    /\ UNCHANGED <<opts, prev, cliVars, refVars>>

\* Client.Filter on the document the first call returned, with an empty
\* filter and the same PruneComponents.
FilterAgain ==
    /\ call = "first"
    /\ result.ok
    /\ opts' = FilterOptions(<<>>, <<>>, <<>>, opts.pruneComponents)
    /\ result' \in Outcomes(applyFilter(Val(result.doc), opts'))
    /\ doc' = Val(result'.input)
    /\ prev' = result
    /\ call' = "again"
    /\ UNCHANGED <<cliVars, refVars>>

\* Client.Filter on the same document with one more path prefix.
FilterMore ==
    /\ call = "first"
    /\ result.returned
    /\ \E prefix \in PathPrefixes :
          opts' = [opts EXCEPT !.paths = Append(@, prefix)]
    /\ result' \in Outcomes(applyFilter(doc, opts'))
    /\ doc' = Val(result'.input)
    /\ prev' = result
    /\ call' = "more"
    /\ UNCHANGED <<cliVars, refVars>>

Next == Filter \/ FilterAgain \/ FilterMore

Spec == Init /\ [][Next]_vars

\* ------------------------------------------------------------------------
\* Reference parsing on its own
\* ------------------------------------------------------------------------
\* The longest reference string, in segments between "/".
MaxSegments == 5

\* The segments of the reference strings: the two of the prefix, kinds the
\* filter knows and one it does not, a name, and the empty segment.
RefSegments == {"#", "components", "schemas", "responses", "widgets", "A", ""}

\* strings.Split(ref, "/") of the reference strings given to validateRef.
RefStrings == UNION { [1..k -> RefSegments] : k \in 1..MaxSegments }

InitRef ==
    /\ refString \in RefStrings
    /\ parsed = Nil
    /\ doc = Document(<<>>, <<>>, <<>>, <<>>, <<>>, <<>>)
    /\ opts = FilterOptions(<<>>, <<>>, <<>>, FALSE)
    /\ call = "none"
    /\ result = NoResult
    /\ prev = NoResult
    /\ NoCommandLine
    /\ walkIn = Nil
    /\ walkOut = Nil
    /\ iteration = <<>>

\* validateRef(ref, location)
ValidateRef ==
    /\ parsed = Nil
    /\ parsed' = Some(validateRef(refString))
    /\ UNCHANGED <<refString, walkIn, walkOut, iteration, libVars, cliVars>>

NextRef == ValidateRef

SpecRef == InitRef /\ [][NextRef]_vars

\* ------------------------------------------------------------------------
\* The command line
\* ------------------------------------------------------------------------
\* The errors of Client.LoadAndFilter: fmt.Errorf("failed to load spec: %w")
\* and fmt.Errorf("spec validation failed: %w").
LoadError ==
    [type |-> "LoadFailed", kind |-> "", name |-> "", context |-> <<>>,
     ref |-> NoRef, reason |-> ""]

ValidationError ==
    [type |-> "ValidationFailed", kind |-> "", name |-> "", context |-> <<>>,
     ref |-> NoRef, reason |-> ""]

\* What LoadAndFilter returns when it stops before Filter: nil and the error.
Failed(err) ==
    [NoResult EXCEPT !.returned = TRUE, !.err = Some(err)]

\* strings.ToLower on the letters of the format names.
LowerChar(c) ==
    CASE c = "J" -> "j"
      [] c = "S" -> "s"
      [] c = "O" -> "o"
      [] c = "N" -> "n"
      [] c = "Y" -> "y"
      [] c = "A" -> "a"
      [] c = "M" -> "m"
      [] c = "L" -> "l"
      [] OTHER -> c

ToLower(str) == [i \in DOMAIN str |-> LowerChar(str[i])]

\* The switch of writeOutput: "json", "yaml" and "yml" have a case.
FormatJSON == <<"j", "s", "o", "n">>

FormatYAML == <<"y", "a", "m", "l">>

FormatYML == <<"y", "m", "l">>

SupportedFormat(format) == ToLower(format) \in {FormatJSON, FormatYAML, FormatYML}

\* The byte of a character of a path, for the order of strings.
ByteOf(c) ==
    CASE c = "/" -> 47
      [] c = "a" -> 97
      [] c = "b" -> 98

\* s < t for Go strings: at the first place where they differ s ends or has
\* the smaller byte.
StringLess(s, t) ==
    \E i \in 1..(Len(t)) :
        /\ i <= Len(s) + 1
        /\ \A j \in 1..(i - 1) : s[j] = t[j]
        /\ \/ i = Len(s) + 1
           \/ ByteOf(s[i]) < ByteOf(t[i])

\* The keys of a map in the order json.Marshal and yaml.Marshal write them:
\* sorted.
SortedKeys(m) ==
    CHOOSE keys \in [1..Cardinality(DOMAIN m) -> DOMAIN m] :
        \A i, j \in 1..Cardinality(DOMAIN m) : i < j => StringLess(keys[i], keys[j])

\* json.MarshalIndent(doc, "", "  ") / yaml.Marshal(doc): the text of the
\* document, its paths written in the order of their keys.
Marshal(d, format) ==
    [format |-> IF ToLower(format) = FormatJSON THEN "json" ELSE "yaml",
     pathOrder |-> SortedKeys(d.paths),
     document |-> d]

\* The documents in the input files, as the loader returns them and as the
\* tests build them.
CommandDocuments == LoadedDocuments \cup CyclicDocuments

\* The orders in which an input file lists its two paths.
PathOrders ==
    { <<<<"/", "a">>, <<"/", "a", "b">>>>, <<<<"/", "a", "b">>, <<"/", "a">>>> }

\* The input files: unreadable, readable and invalid, readable and valid.
Sources ==
    { [readable |-> r, valid |-> v, pathOrder |-> o]
      : r \in BOOLEAN, v \in BOOLEAN, o \in PathOrders }

\* The values of --format: the default, an upper-case name, the short name
\* and a name without a case in the switch.
Formats == { FormatYAML, <<"J", "S", "O", "N">>, FormatYML, <<"x", "m", "l">> }

Commands ==
    { [format |-> f, output |-> o, dryRun |-> d, validateOnly |-> v]
      : f \in Formats, o \in {"", "out.yaml"}, d \in BOOLEAN, v \in BOOLEAN }

\* The filter flags of the command line.
CommandOptions ==
    { FilterOptions(ps, <<>>, <<>>, prune)
      : ps \in { <<>>, <<<<"/", "a", "b">>>> }, prune \in BOOLEAN }

InitCLI ==
    /\ doc \in CommandDocuments
    /\ opts \in CommandOptions
    /\ source \in Sources
    /\ cmd \in Commands
    /\ pc = "start"
    /\ log = <<>>
    /\ file = Nil
    /\ stdout = <<>>
    /\ exit = Nil
    /\ call = "none"
    /\ result = NoResult
    /\ prev = NoResult
    /\ NoParse

\* runFilter with --validate-only: client.ValidateOnly loads and validates.
ValidateOnly ==
    /\ pc = "start"
    /\ cmd.validateOnly
    /\ log' = IF source.readable THEN <<"load", "validate">> ELSE <<"load">>
    /\ exit' = IF source.readable /\ source.valid THEN Nil
               ELSE IF source.readable THEN Some(ValidationError) ELSE Some(LoadError)
    /\ stdout' = IF source.readable /\ source.valid THEN <<"valid">> ELSE stdout
    /\ pc' = "done"
    /\ UNCHANGED <<libVars, source, cmd, file, refVars>>

\* LoadAndFilter: c.LoadFromFile / c.LoadFromURL, and the return on its error.
LoadStep ==
    /\ pc = "start"
    /\ ~cmd.validateOnly
    /\ log' = Append(log, "load")
    /\ IF source.readable
       THEN /\ pc' = "loaded"
            /\ UNCHANGED <<result, exit>>
       ELSE /\ pc' = "done"
            /\ result' = Failed(LoadError)
            /\ exit' = Some(LoadError)
    /\ UNCHANGED <<doc, opts, call, prev, source, cmd, file, stdout, refVars>>

\* A variant of ValidateStep that goes on to Filter whatever Validate says.
ValidateStepSkipped ==
    /\ pc = "loaded"
    /\ log' = Append(log, "validate")
    /\ pc' = "validated"
    /\ UNCHANGED <<libVars, source, cmd, file, stdout, exit, refVars>>

\* LoadAndFilter: c.Validate(doc), and the return on its error.
ValidateStep ==
    /\ pc = "loaded"
    /\ log' = Append(log, "validate")
    /\ IF source.valid
       THEN /\ pc' = "validated"
            /\ UNCHANGED <<result, exit>>
       ELSE /\ pc' = "done"
            /\ result' = Failed(ValidationError)
            /\ exit' = Some(ValidationError)
    /\ UNCHANGED <<doc, opts, call, prev, source, cmd, file, stdout, refVars>>

\* LoadAndFilter: return c.Filter(doc, opts); runFilter returns on its error.
\* When Filter does not return the program has ended.
FilterStep ==
    /\ pc = "validated"
    /\ log' = Append(log, "filter")
    /\ result' \in Outcomes(applyFilter(doc, opts))
    /\ doc' = Val(result'.input)
    /\ call' = "first"
    /\ pc' = IF result'.ok THEN "filtered"
             ELSE IF result'.returned THEN "done" ELSE "aborted"
    /\ exit' = IF result'.returned /\ ~result'.ok THEN result'.err ELSE exit
    /\ UNCHANGED <<opts, prev, source, cmd, file, stdout, refVars>>

\* runFilter with --dry-run: the summary is printed, nothing is written.
showDryRunSummary ==
    /\ pc = "filtered"
    /\ cmd.dryRun
    /\ stdout' = Append(stdout, "summary")
    /\ log' = Append(log, "summary")
    /\ pc' = "done"
    /\ UNCHANGED <<libVars, source, cmd, file, exit, refVars>>

\* A variant of writeOutput that writes a format without a case as YAML.
writeOutputAnyFormat ==
    /\ pc = "filtered"
    /\ ~cmd.dryRun
    /\ log' = Append(log, "write")
    /\ IF cmd.output = ""
       THEN /\ stdout' = Append(stdout, "document")
            /\ UNCHANGED file
       ELSE /\ file' = Some(Marshal(Val(result.doc), cmd.format))
            /\ UNCHANGED stdout
    /\ exit' = IF SupportedFormat(cmd.format) THEN exit
               ELSE Some([LoadError EXCEPT !.type = "UnsupportedFormat"])
    /\ pc' = "done"
    /\ UNCHANGED <<libVars, source, cmd, refVars>>

\* writeOutput: the format is looked up first; the text goes to standard
\* output, or to the output file when one is named.
writeOutput ==
    /\ pc = "filtered"
    /\ ~cmd.dryRun
    /\ IF ~SupportedFormat(cmd.format)
       THEN /\ exit' = Some([LoadError EXCEPT !.type = "UnsupportedFormat"])
            /\ UNCHANGED <<file, stdout, log>>
       ELSE /\ log' = Append(log, "write")
            /\ IF cmd.output = ""
               THEN /\ stdout' = Append(stdout, "document")
                    /\ UNCHANGED file
               ELSE /\ file' = Some(Marshal(Val(result.doc), cmd.format))
                    /\ UNCHANGED stdout
            /\ UNCHANGED exit
    /\ pc' = "done"
    /\ UNCHANGED <<libVars, source, cmd, refVars>>

NextCLI ==
    \/ ValidateOnly
    \/ LoadStep
    \/ ValidateStep
    \/ FilterStep
    \/ showDryRunSummary
    \/ writeOutput

SpecCLI == InitCLI /\ [][NextCLI]_vars

\* ------------------------------------------------------------------------
\* Vocabulary of the properties
\* ------------------------------------------------------------------------
\* Filter has been called and returned a document.
Succeeded == call # "none" /\ result.ok

\* The document the last call returned.
Out == Val(result.doc)

\* The operations of a document, as (path, method) pairs.
RetainedOps(d) ==
    UNION { { <<p, m>> : m \in DOMAIN d.paths[p].ops } : p \in DOMAIN d.paths }

\* Some prefix of the list is a prefix of the path.
PrefixMatched(p, prefixes) == \E x \in Range(prefixes) : HasPrefix(p, x)

\* Every SchemaRef node of a schema tree.
RECURSIVE SchemaNodes(_)
SchemaNodes(node) ==
    {node} \cup IF IsNil(node.value) THEN {}
                ELSE UNION { SchemaNodes(c) : c \in SchemaChildren(Val(node.value)) }

\* The reference strings of a schema tree, of an optional schema, of a
\* content map, of a parameter, of a request body or response.
SchemaRefStrings(node) == { n.ref : n \in SchemaNodes(node) } \ {NoRef}

OptSchemaRefStrings(schema) ==
    IF IsNil(schema) THEN {} ELSE SchemaRefStrings(Val(schema))

ContentRefStrings(content) ==
    UNION { OptSchemaRefStrings(content[mt].schema) : mt \in DOMAIN content }

ParameterSchemaRefStrings(param) ==
    IF IsNil(param.value) THEN {} ELSE OptSchemaRefStrings(Val(param.value).schema)

BodySchemaRefStrings(body) ==
    IF IsNil(body.value) THEN {} ELSE ContentRefStrings(Val(body.value).content)

OwnRef(x) == {x.ref} \ {NoRef}

\* The reference strings of one operation, by the kind of component each
\* position refers to.
OperationRefStrings(op) ==
    [schemas |->
        UNION { ParameterSchemaRefStrings(op.parameters[i]) : i \in 1..Len(op.parameters) }
        \cup UNION { BodySchemaRefStrings(b) : b \in Range(op.requestBody) }
        \cup UNION { BodySchemaRefStrings(op.responses[st]) : st \in DOMAIN op.responses },
     parameters |-> UNION { OwnRef(op.parameters[i]) : i \in 1..Len(op.parameters) },
     requestBodies |-> UNION { OwnRef(b) : b \in Range(op.requestBody) },
     responses |-> UNION { OwnRef(op.responses[st]) : st \in DOMAIN op.responses }]

\* The reference strings of the paths of a document: its operations and the
\* path-level parameters.
PathsRefStrings(d, kind) ==
    UNION { OperationRefStrings(d.paths[pm[1]].ops[pm[2]])[kind] : pm \in RetainedOps(d) }
    \cup UNION { UNION { IF kind = "parameters" THEN OwnRef(d.paths[p].parameters[i])
                         ELSE IF kind = "schemas"
                              THEN ParameterSchemaRefStrings(d.paths[p].parameters[i])
                              ELSE {}
                       : i \in 1..Len(d.paths[p].parameters) }
               : p \in DOMAIN d.paths }

\* The reference strings of the four component maps of a document.
ComponentsRefStrings(d, kind) ==
    IF kind = "schemas"
    THEN UNION { SchemaRefStrings(d.components.schemas[n]) : n \in DOMAIN d.components.schemas }
         \cup UNION { ParameterSchemaRefStrings(d.components.parameters[n])
                    : n \in DOMAIN d.components.parameters }
         \cup UNION { BodySchemaRefStrings(d.components.requestBodies[n])
                    : n \in DOMAIN d.components.requestBodies }
         \cup UNION { BodySchemaRefStrings(d.components.responses[n])
                    : n \in DOMAIN d.components.responses }
    ELSE UNION { OwnRef(d.components[kind][n]) : n \in DOMAIN d.components[kind] }

Kinds == {"schemas", "parameters", "requestBodies", "responses"}

\* The reference names a component of the kind that the document holds.
Resolves(d, kind, ref) ==
    /\ ref = RefTo(kind, extractRefName(ref))
    /\ extractRefName(ref) \in DOMAIN d.components[kind]

\* Every reference string of the paths and of the components of the document
\* names a component the document holds.
SelfContained(d) ==
    \A kind \in Kinds :
        \A ref \in PathsRefStrings(d, kind) \cup ComponentsRefStrings(d, kind) :
            Resolves(d, kind, ref)

\* ------------------------------------------------------------------------
\* Closure of the retained operations
\* ------------------------------------------------------------------------
\* The names of a set of reference strings.
Names(refs) == { extractRefName(r) : r \in refs }

\* The schema names reachable through the schema map from a set of names.
RECURSIVE SchemaClosure(_, _)
SchemaClosure(d, names) ==
    LET next == names \cup
                UNION { Names(SchemaRefStrings(d.components.schemas[n]))
                      : n \in names \cap DOMAIN d.components.schemas }
    IN IF next = names THEN names ELSE SchemaClosure(d, next)

\* The transitive reference closure, in the component maps of d, of the
\* operations ops: the parameters, request bodies and responses they refer to,
\* and every schema reachable from the operations and from those components.
Closure(d, ops) ==
    LET refs(kind) == UNION { OperationRefStrings(op)[kind] : op \in ops }
        parameters == Names(refs("parameters"))
        requestBodies == Names(refs("requestBodies"))
        responses == Names(refs("responses"))
        seeds == Names(refs("schemas"))
                 \cup UNION { Names(ParameterSchemaRefStrings(d.components.parameters[n]))
                            : n \in parameters \cap DOMAIN d.components.parameters }
                 \cup UNION { Names(BodySchemaRefStrings(d.components.requestBodies[n]))
                            : n \in requestBodies \cap DOMAIN d.components.requestBodies }
                 \cup UNION { Names(BodySchemaRefStrings(d.components.responses[n]))
                            : n \in responses \cap DOMAIN d.components.responses }
    IN [schemas |-> SchemaClosure(d, seeds),
        parameters |-> parameters,
        requestBodies |-> requestBodies,
        responses |-> responses]

\* The operations of a document.
OperationsIn(d) == { d.paths[pm[1]].ops[pm[2]] : pm \in RetainedOps(d) }

\* ------------------------------------------------------------------------
\* Properties
\* ------------------------------------------------------------------------
\* C1: self-containment.  When Filter succeeds on an input whose own
\* references all resolve, every reference string in the paths and in the
\* components of the output names a component that the output holds under
\* the kind the reference is for.
C1_SelfContainment ==
    (call = "first" /\ result.ok /\ SelfContained(doc)) => SelfContained(Out)

\* C2: with PruneComponents, the schemas, parameters, requestBodies and
\* responses of the output are exactly the components of the input in the
\* transitive reference closure of the retained operations.
C2_PrunedIsClosure ==
    (call = "first" /\ result.ok /\ opts.pruneComponents) =>
        \A kind \in Kinds :
            DOMAIN Out.components[kind] =
                Closure(doc, OperationsIn(Out))[kind] \cap DOMAIN doc.components[kind]

\* The operation is in the document at the path and in the method slot.
Retained(d, p, m) == <<p, m>> \in RetainedOps(d)

\* The Operations axis accepts the operation: it is empty, or the operation
\* id is one of the tokens, or a token is the method up to case.
OperationAxisHolds(op, m) ==
    \/ opts.operations = <<>>
    \/ \E tok \in Range(opts.operations) : tok = op.operationId
    \/ \E tok \in Range(opts.operations) : EqualFold(tok, m)

\* The Tags axis accepts the operation: it is empty, or the operation carries
\* one of its tags.
TagAxisHolds(op) ==
    \/ opts.tags = <<>>
    \/ Range(op.tags) \cap Range(opts.tags) # {}

DirectNames(op) == [kind \in Kinds |-> Names(OperationRefStrings(op)[kind])]

C5_ThreeAxesAnd ==
    Succeeded =>
        \A pm \in RetainedOps(Out) :
            /\ (opts.paths = <<>> \/ PrefixMatched(pm[1], opts.paths))
            /\ OperationAxisHolds(doc.paths[pm[1]].ops[pm[2]], pm[2])
            /\ TagAxisHolds(doc.paths[pm[1]].ops[pm[2]])

\* C6: with Paths, Operations and Tags all empty the paths of the output are
\* those of the input, each with the same PathItem, and every component of
\* the output is the component of the input.
C6_EmptyFilterIdentity ==
    (Succeeded /\ opts.paths = <<>> /\ opts.operations = <<>> /\ opts.tags = <<>>) =>
        /\ Out.paths = doc.paths
        /\ \A kind \in Kinds :
              \A n \in DOMAIN Out.components[kind] :
                 /\ n \in DOMAIN doc.components[kind]
                 /\ Out.components[kind][n] = doc.components[kind][n]

\* The schema names found in the operations and in the parameters, request
\* bodies and responses that the operations refer to.
SeedableSchemas(d, ops) ==
    LET direct(kind) == UNION { DirectNames(op)[kind] : op \in ops }
    IN direct("schemas")
       \cup UNION { Names(ParameterSchemaRefStrings(d.components.parameters[n]))
                  : n \in direct("parameters") \cap DOMAIN d.components.parameters }
       \cup UNION { Names(BodySchemaRefStrings(d.components.requestBodies[n]))
                  : n \in direct("requestBodies") \cap DOMAIN d.components.requestBodies }
       \cup UNION { Names(BodySchemaRefStrings(d.components.responses[n]))
                  : n \in direct("responses") \cap DOMAIN d.components.responses }

\* The operations of the paths of d that a prefix of the list matches.
OperationsUnder(d, prefixes) ==
    UNION { { d.paths[p].ops[m] : m \in DOMAIN d.paths[p].ops }
          : p \in { q \in DOMAIN d.paths : PrefixMatched(q, prefixes) } }

\* C7: with Operations and Tags empty and Paths not, the paths of the output
\* are the paths a prefix matches, and only the operations of those paths
\* contribute references and tags.
C7_PathsOnly ==
    (Succeeded /\ opts.operations = <<>> /\ opts.tags = <<>> /\ opts.paths # <<>>) =>
        LET ops == OperationsUnder(doc, opts.paths)
        IN /\ DOMAIN Out.paths = { p \in DOMAIN doc.paths : PrefixMatched(p, opts.paths) }
           /\ result.usedTagNames = UNION { Range(op.tags) : op \in ops }
           /\ \A kind \in Kinds \ {"schemas"} :
                 result.processedRefs[kind] = UNION { DirectNames(op)[kind] : op \in ops }
           /\ result.processedRefs.schemas \subseteq SeedableSchemas(doc, ops)

\* C7 happens: one path is matched and kept, another one with an operation
\* that has a tag and a reference is dropped.
C7_Witness ==
    /\ Succeeded /\ opts.operations = <<>> /\ opts.tags = <<>> /\ opts.paths # <<>>
    /\ Out.paths # <<>>
    /\ \E p \in DOMAIN doc.paths \ DOMAIN Out.paths :
          \E m \in DOMAIN doc.paths[p].ops :
             /\ ~(Range(doc.paths[p].ops[m].tags) \subseteq result.usedTagNames)
             /\ ~(DirectNames(doc.paths[p].ops[m])["requestBodies"]
                    \subseteq result.processedRefs.requestBodies)

\* The list of path prefixes of the call before the last one.
EarlierPaths == SubSeq(opts.paths, 1, Len(opts.paths) - 1)

CarriedTags(d) == UNION { Range(op.tags) : op \in OperationsIn(d) }

IsCarried(tag) == tag.name \in CarriedTags(Out)

\* C9: the tag list of the output is the tag list of the input without the
\* entries whose name no retained operation carries, in the same order.
C9_TagList ==
    Succeeded => Out.tags = SelectSeq(doc.tags, IsCarried)

\* C9 happens: of two declared tags one is carried and kept, the other is
\* omitted, and a retained operation carries a tag the input does not declare
\* or the kept one is the second of the input.
C9_Witness ==
    /\ Succeeded
    /\ Len(doc.tags) = 2
    /\ Out.tags = <<doc.tags[2]>>
    /\ RetainedOps(Out) # {}

\* C10: filtering the output of a successful call again with an empty filter
\* and the same PruneComponents succeeds and returns that output.
C10_Idempotent ==
    call = "again" => (result.ok /\ Out = doc)

\* ------------------------------------------------------------------------
\* Cycles
\* ------------------------------------------------------------------------
\* The component schemas that the schema named n reaches by following
\* reference strings, one or more times.
ReachedFrom(d, n) ==
    SchemaClosure(d, Names(SchemaRefStrings(d.components.schemas[n])))
        \cap DOMAIN d.components.schemas

\* The component schemas that lie on a reference cycle.
OnCycle(d) == { n \in DOMAIN d.components.schemas : n \in ReachedFrom(d, n) }

\* C11: on an input whose component schemas form a reference cycle the call
\* returns, and when it returns a document, every schema on the cycle of a
\* seeded schema is in the schemas of the output.
C11_CyclicTerminates ==
    (call = "first" /\ OnCycle(doc) # {}) =>
        /\ result.returned
        /\ result.ok =>
              \A n \in OnCycle(doc) \cap result.processedRefs.schemas :
                  ReachedFrom(doc, n) \subseteq DOMAIN Out.components.schemas


\* ------------------------------------------------------------------------
\* Missing components
\* ------------------------------------------------------------------------
\* The operations the filter retains, as processPathsAndOperations selects
\* them from the input.
SelectedOps(d, o) ==
    OperationsIn([paths |-> processPathsAndOperations(d, o, findAllMimeTypes(d)).paths])

\* The Type a ComponentNotFoundError carries for a component map.
TypeOfKind(kind) ==
    CASE kind = "schemas" -> "schema"
      [] kind = "parameters" -> "parameter"
      [] kind = "requestBodies" -> "request body"
      [] kind = "responses" -> "response"

\* The components <<kind, name>> in the closure of the operations that the
\* maps of the document do not hold.
Missing(d, ops) ==
    UNION { { <<kind, n>> : n \in Closure(d, ops)[kind] \ DOMAIN d.components[kind] }
          : kind \in Kinds }

\* C12: when a reference reachable from a retained operation names a component
\* the input does not hold, the call returns no document and a
\* ComponentNotFound error that carries the kind and the name of such a
\* component.
C12_MissingComponent ==
    (call = "first" /\ Missing(doc, SelectedOps(doc, opts)) # {}) =>
        /\ result.returned
        /\ ~result.ok
        /\ result.doc = Nil
        /\ ~IsNil(result.err)
        /\ Val(result.err).type = "ComponentNotFound"
        /\ \E c \in Missing(doc, SelectedOps(doc, opts)) :
              /\ Val(result.err).kind = TypeOfKind(c[1])
              /\ Val(result.err).name = c[2]

\* ------------------------------------------------------------------------
\* Frame of the call
\* ------------------------------------------------------------------------
\* C13: a call leaves its input as it was: the document a first call or a
\* call with one more prefix was given is the same after the call, whatever
\* the outcome and with or without pruning, and so is the document a second
\* call was given, which is the output of the first.
C13_InputUnchanged ==
    [][/\ call' \in {"first", "more"} => doc' = doc
       /\ call' = "again" => doc' = Val(result.doc)]_vars

\* A call with pruning has returned a document whose component maps lack an
\* entry of the input's.
C13_Witness ==
    /\ call = "first"
    /\ result.ok
    /\ opts.pruneComponents
    /\ \E kind \in Kinds :
          DOMAIN doc.components[kind] \ DOMAIN Out.components[kind] # {}

\* C14: the openapi version, info, servers, externalDocs and top-level
\* security requirements of a returned document are those of the input.
C14_TopLevelCopied ==
    (call = "first" /\ result.ok) =>
        /\ Out.openapi = doc.openapi
        /\ Out.info = doc.info
        /\ Out.servers = doc.servers
        /\ Out.externalDocs = doc.externalDocs
        /\ Out.security = doc.security

\* The component kinds the filter does not look into.
OpaqueKinds == {"headers", "securitySchemes", "examples", "links", "callbacks"}

\* The same call with PruneComponents the other way.
OtherPruning == applyFilter(doc, [opts EXCEPT !.pruneComponents = ~@])

\* C15: the headers, securitySchemes, examples, links and callbacks of the
\* document a call returns are those of the document the call was given, and
\* they are the same in the document the call returns with PruneComponents
\* the other way.
C15_OpaqueKindsCopied ==
    [][(call' = "first" /\ result'.ok) =>
          Bind(OtherPruning, LAMBDA other :
              \A kind \in OpaqueKinds :
                  /\ Val(result'.doc).components[kind] = doc.components[kind]
                  /\ other.ok =>
                        Val(other.doc).components[kind]
                            = Val(result'.doc).components[kind])]_vars

\* A call with pruning has returned a document that lacks a component of the
\* input and has entries of the opaque kinds.
C15_Witness ==
    /\ call = "first"
    /\ result.ok
    /\ OtherPruning.ok
    /\ opts.pruneComponents
    /\ DOMAIN doc.components.schemas \ DOMAIN Out.components.schemas # {}
    /\ \A kind \in OpaqueKinds : DOMAIN Out.components[kind] # {}

\* ------------------------------------------------------------------------
\* Reference parsing
\* ------------------------------------------------------------------------
\* The reference string is one the parser has to reject: it is empty, lacks
\* the prefix "#/components/", does not have exactly the four segments "#",
\* "components", kind and name, or its kind is not one of the four.
Malformed(r) ==
    \/ r = NoRef
    \/ ~HasComponentsPrefix(r)
    \/ Len(r) # 4
    \/ r[3] \notin Kinds

\* C17: validateRef fails with InvalidReference on a malformed reference
\* string and returns the name segment of any other.
C17_ValidateRef ==
    parsed # Nil =>
        IF Malformed(refString)
        THEN /\ ~Val(parsed).ok
             /\ RefError(refString).type = "InvalidReference"
        ELSE /\ Val(parsed).ok
             /\ Val(parsed).name = refString[4]

\* ------------------------------------------------------------------------
\* The command line: order of paths, order of steps, the output file
\* ------------------------------------------------------------------------
\* p comes before q in the sequence.
Precedes(order, p, q) ==
    \E i, j \in DOMAIN order : i < j /\ order[i] = p /\ order[j] = q

\* C16: two paths retained in the output come in the output in the order in
\* which the input lists them.
C16_PathOrder ==
    file # Nil =>
        \A p, q \in Range(Val(file).pathOrder) :
            Precedes(Val(file).pathOrder, p, q) <=> Precedes(source.pathOrder, p, q)

\* C18: LoadAndFilter loads, then validates, then filters: validation runs
\* second and only on a loaded source, Filter runs third and only on a loaded
\* and valid source, and a source that cannot be loaded or is not valid gives
\* the error of that step, no document and no call of Filter.
C18_LoadValidateFilter ==
    /\ \A i \in DOMAIN log :
          /\ log[i] = "validate" => (i = 2 /\ log[1] = "load" /\ source.readable)
          /\ log[i] = "filter" =>
                (i = 3 /\ log[1] = "load" /\ log[2] = "validate"
                   /\ source.readable /\ source.valid)
    /\ (pc = "done" /\ ~cmd.validateOnly /\ ~(source.readable /\ source.valid)) =>
          /\ result.returned
          /\ ~result.ok
          /\ result.doc = Nil
          /\ result.err = Some(IF source.readable THEN ValidationError ELSE LoadError)
          /\ call = "none"

\* LoadAndFilter has loaded, validated and filtered, and returned a document.
C18_Witness ==
    /\ log = <<"load", "validate", "filter">>
    /\ pc = "filtered"
    /\ result.ok

\* The run ended with an error of loading, validating or filtering.
FailedBeforeWrite ==
    \/ ~source.readable
    \/ ~source.valid
    \/ call = "first" /\ result.returned /\ ~result.ok

\* C19 as claimed: the output file is written only after load, validation
\* and filtering succeeded and with a supported format, and a run with an
\* error of load, validation or filter, or with an unsupported format, ends
\* with no write and a non-nil error.
C19_WriteOnlyOnSuccessAnyRun ==
    /\ file # Nil =>
          /\ log = <<"load", "validate", "filter", "write">>
          /\ source.readable /\ source.valid /\ result.ok
          /\ SupportedFormat(cmd.format)
    /\ (pc = "done" /\ (FailedBeforeWrite \/ ~SupportedFormat(cmd.format))) =>
          (file = Nil /\ exit # Nil)

\* C19, amended: the output file is written only after load, validation and
\* filtering succeeded and with a supported format; a run with an error of
\* load, validation or filter ends with no write and a non-nil error, and so
\* does a run with an unsupported format that is neither --validate-only nor
\* --dry-run; those two never write, and neither does a run that Filter ended.
C19_WriteOnlyOnSuccess ==
    /\ file # Nil =>
          /\ log = <<"load", "validate", "filter", "write">>
          /\ source.readable /\ source.valid /\ result.ok
          /\ SupportedFormat(cmd.format)
    /\ (pc = "done" /\ FailedBeforeWrite) => (file = Nil /\ exit # Nil)
    /\ (pc = "done" /\ ~cmd.validateOnly /\ ~cmd.dryRun
          /\ ~SupportedFormat(cmd.format)) => (file = Nil /\ exit # Nil)
    /\ (cmd.validateOnly \/ cmd.dryRun \/ pc = "aborted") => file = Nil

\* The output file has been written.
C19_Witness ==
    /\ pc = "done"
    /\ file # Nil
    /\ cmd.output # ""

\* ------------------------------------------------------------------------
\* The not composition
\* ------------------------------------------------------------------------
\* The names that the component schemas of the set refer to from their not.
NotTargets(d, names) ==
    { extractRefName(Val(Val(d.components.schemas[a].value).not).ref)
      : a \in { n \in names \cap DOMAIN d.components.schemas :
                  /\ ~IsNil(d.components.schemas[n].value)
                  /\ ~IsNil(Val(d.components.schemas[n].value).not)
                  /\ Val(Val(d.components.schemas[n].value).not).ref # NoRef } }

\* C20: when the call returns a document, the schema that a component
\* schema in the closure of the retained operations names in its not is among
\* the schemas of the output.
C20_NotFollowed ==
    (call = "first" /\ result.ok) =>
        NotTargets(doc, Closure(doc, SelectedOps(doc, opts)).schemas)
            \subseteq DOMAIN Out.components.schemas

\* ------------------------------------------------------------------------
\* Component schemas with nested inline schemas
\* ------------------------------------------------------------------------
\* A schema whose Items is the given node.
HoldingItems(node) == Inline([EmptySchema EXCEPT !.items = Some(node)])

\* A schema whose AllOf has the given node as its only element.
HoldingAllOf(node) == Inline([EmptySchema EXCEPT !.allOf = <<node>>])

\* The component schemas the inputs hold under the name "A", as
\* TestDeeplyNestedSchemaReferences nests them: the reference to "B" is under
\* items, under two and under three levels of properties, under the items of
\* items, and under a property of an inline allOf element.
NestedShapes ==
    { HoldingItems(SchemaRefTo("B")),
      Holding("x", Holding("y", SchemaRefTo("B"))),
      Holding("x", Holding("y", Holding("z", SchemaRefTo("B")))),
      HoldingItems(HoldingItems(SchemaRefTo("B"))),
      HoldingAllOf(Holding("p", SchemaRefTo("B"))) }

NestedStores ==
    { [n \in {"A", "B"} |-> IF n = "A" THEN a ELSE Inline(EmptySchema)] : a \in NestedShapes }

\* The path items of these inputs: GET alone, and GET with POST.
NestedPathItems ==
    { [summary |-> "", parameters |-> <<>>, ops |-> [m \in {StrGET} |-> OpList]],
      [summary |-> "", parameters |-> <<>>,
       ops |-> [m \in {StrGET, StrPOST} |-> IF m = StrGET THEN OpList ELSE OpCreate]] }

NestedDocuments ==
    { Document(<<[name |-> "u"], [name |-> "t"]>>, ps, ss,
               ParameterStore, RequestBodyStore, ResponseStore)
      : ps \in [PathNames -> NestedPathItems],
        ss \in NestedStores }

\* GET with an inline parameter whose schema is an array of "B".
OpQuery ==
    [operationId |-> StrX, tags |-> <<"u">>,
     parameters |-> <<[ref |-> NoRef,
                       value |-> Some([schema |-> Some(HoldingItems(SchemaRefTo("B")))])]>>,
     requestBody |-> Nil, responses |-> <<>>]

\* Documents whose operations have parameters only: the inline array
\* parameter, and the reference to the component parameter "P".
ParameterDocuments ==
    { Document(<<[name |-> "u"], [name |-> "t"]>>, ps,
               [n \in {"A", "B"} |-> Inline(EmptySchema)],
               ParameterStore, RequestBodyStore, ResponseStore)
      : ps \in [PathNames -> { [summary |-> "", parameters |-> <<>>,
                                ops |-> [m \in {StrGET} |-> op]]
                              : op \in {OpQuery, OpShow} }] }

\* POST with an inline request body and an inline response whose content is
\* under media types that are not among the defaults.
OpUpload ==
    [operationId |-> StrEmpty, tags |-> <<"t">>, parameters |-> <<>>,
     requestBody |-> Some([ref |-> NoRef,
                           value |-> Some([content |->
                               [mt \in {<<"application", "vnd">>} |->
                                   [schema |-> Some(SchemaRefTo("B"))]]])]),
     responses |-> [st \in {"200"} |->
                       [ref |-> NoRef,
                        value |-> Some([content |->
                            [mt \in {<<"text", "csv">>} |->
                                [schema |-> Some(SchemaRefTo("A"))]]])]]]

\* Documents whose operations have content under other media types.
MimeDocuments ==
    { Document(<<[name |-> "u"], [name |-> "t"]>>, ps,
               [n \in {"A", "B"} |-> Inline(EmptySchema)],
               ParameterStore, RequestBodyStore, ResponseStore)
      : ps \in [PathNames -> { [summary |-> "", parameters |-> <<>>,
                                ops |-> [m \in {StrGET} |-> OpList]],
                               [summary |-> "", parameters |-> <<>>,
                                ops |-> [m \in {StrPOST} |-> OpUpload]] }] }

\* Documents with a dangling schema reference: "A" refers to "B" from one
\* of the places the resolver looks at and "B" is absent; or the operations
\* refer to "A" and "A" is absent.
DanglingStores ==
    { [n \in {"A"} |-> a]
    : a \in { Holding("p", SchemaRefTo("B")),
              Holding("p", HoldingItems(SchemaRefTo("B"))),
              Holding("x", Holding("y", SchemaRefTo("B"))),
              HoldingItems(SchemaRefTo("B")),
              HoldingAllOf(SchemaRefTo("B")) } }
        \cup { [n \in {"B"} |-> Inline(EmptySchema)] }

DanglingDocuments ==
    { Document(<<[name |-> "u"], [name |-> "t"]>>,
               [p \in PathNames |-> [summary |-> "", parameters |-> <<>>,
                                      ops |-> [m \in {StrGET} |-> OpList]]],
               ss, ParameterStore, RequestBodyStore, ResponseStore)
      : ss \in DanglingStores }

\* Documents whose PathItems have parameters of their own that no operation
\* below them repeats: a reference to the component parameter "P", and an
\* inline parameter whose schema refers to "B".
PathParameterDocuments ==
    { Document(<<[name |-> "u"], [name |-> "t"]>>, ps,
               [n \in {"A", "B"} |-> Inline(EmptySchema)],
               ParameterStore, RequestBodyStore, ResponseStore)
      : ps \in [PathNames ->
                  { [summary |-> "s", parameters |-> <<param>>,
                     ops |-> [m \in {StrGET} |-> OpList]]
                  : param \in { [ref |-> RefTo("parameters", "P"), value |-> Nil],
                                [ref |-> NoRef,
                                 value |-> Some([schema |-> Some(SchemaRefTo("B"))])] } }] }

\* Filters whose Operations list holds the empty string, alone and next to
\* another token.
EmptyTokenOptions ==
    { FilterOptions(<<>>, os, <<>>, prune)
      : os \in { <<StrEmpty>>, <<StrX, StrEmpty>> },
        prune \in BOOLEAN }

\* Client.Filter and the calls that follow it, on the documents with nested
\* component schemas.
InitNested ==
    /\ doc \in NestedDocuments \cup ParameterDocuments \cup MimeDocuments
                \cup DanglingDocuments \cup PathParameterDocuments
    /\ opts \in Options \cup EmptyTokenOptions
    /\ call = "none"
    /\ result = NoResult
    /\ prev = NoResult
    /\ NoCommandLine
    /\ NoParse

SpecNested == InitNested /\ [][Next]_vars

\* The schemas directly under a schema value through items, properties,
\* allOf, oneOf and anyOf.
NestedChildren(v) ==
    Range(v.items) \cup { v.properties[p] : p \in DOMAIN v.properties }
        \cup Range(v.allOf) \cup Range(v.oneOf) \cup Range(v.anyOf)

\* The reference strings found under a schema at any depth of inline nesting:
\* a node with a Ref gives its Ref, an inline node those of its children.
RECURSIVE NestedRefStrings(_)
NestedRefStrings(node) ==
    IF node.ref # NoRef THEN {node.ref}
    ELSE IF IsNil(node.value) THEN {}
         ELSE UNION { NestedRefStrings(c) : c \in NestedChildren(Val(node.value)) }

\* C21: when the call returns a document, every schema that a component
\* schema of the output refers to, at whatever depth of inline items,
\* properties, allOf, oneOf or anyOf the reference sits, is among the schemas
\* of the output.
C21_AnyDepth ==
    (call = "first" /\ result.ok) =>
        \A s \in DOMAIN Out.components.schemas :
            \A r \in NestedRefStrings(doc.components.schemas[s]) :
                extractRefName(r) \in DOMAIN Out.components.schemas

\* The schemas an operation's parameters must bring into the output: every
\* reference found in the schema of an inline parameter, and the schema a
\* referenced component parameter names directly.
ParameterSchemaNames(d, op) ==
    UNION { LET param == op.parameters[i]
            IN IF param.ref = NoRef
               THEN { extractRefName(r)
                    : r \in UNION { NestedRefStrings(sch)
                                  : sch \in UNION { Range(v.schema) : v \in Range(param.value) } } }
               ELSE IF extractRefName(param.ref) \in DOMAIN d.components.parameters
                    THEN DirectSchemaRef(d.components.parameters[extractRefName(param.ref)]).schemas
                    ELSE {}
          : i \in 1..Len(op.parameters) }

\* The component parameters the parameters of an operation refer to.
ParameterNames(op) ==
    { extractRefName(op.parameters[i].ref)
    : i \in { j \in 1..Len(op.parameters) : op.parameters[j].ref # NoRef } }

\* C22: when the call returns a document, for every operation it retains
\* the schemas referred to anywhere in the schema of an inline parameter are
\* among the schemas of the output, the component parameters its parameters
\* refer to are among the parameters of the output, and so is the schema
\* such a component parameter names directly.
C22_ParameterSeeds ==
    (call = "first" /\ result.ok) =>
        \A pm \in RetainedOps(Out) :
            /\ ParameterSchemaNames(doc, Out.paths[pm[1]].ops[pm[2]])
                  \subseteq DOMAIN Out.components.schemas
            /\ ParameterNames(Out.paths[pm[1]].ops[pm[2]])
                  \subseteq DOMAIN Out.components.parameters

\* ------------------------------------------------------------------------
\* Calls of the schema walker
\* ------------------------------------------------------------------------
MaxNest == 2

\* The fields of a Schema value that hold schemas.
SchemaFields == {"items", "properties", "allOf", "oneOf", "anyOf", "not"}

\* A Schema value with one schema below it, in the given field.
Under(field, child) ==
    CASE field = "items" -> [EmptySchema EXCEPT !.items = Some(child)]
      [] field = "properties" -> [EmptySchema EXCEPT !.properties = [p \in {"p"} |-> child]]
      [] field = "allOf" -> [EmptySchema EXCEPT !.allOf = <<child>>]
      [] field = "oneOf" -> [EmptySchema EXCEPT !.oneOf = <<child>>]
      [] field = "anyOf" -> [EmptySchema EXCEPT !.anyOf = <<child>>]
      [] field = "not" -> [EmptySchema EXCEPT !.not = Some(child)]

\* The schemas given to the walker, nested at most n deep: references without
\* a Value, inline schemas, and references to "A" that carry a Value, as the
\* loader leaves the references it has resolved.
RECURSIVE WalkSchemas(_)
WalkSchemas(n) ==
    IF n = 0 THEN { SchemaRefTo("A"), SchemaRefTo("B"), Inline(EmptySchema) }
    ELSE LET below == WalkSchemas(n - 1)
         IN below \cup { [ref |-> r, value |-> Some(Under(field, child))]
                       : r \in {NoRef, RefTo("schemas", "A")},
                         field \in SchemaFields,
                         child \in below }

InitWalk ==
    /\ walkIn \in {Nil} \cup { Some(s) : s \in WalkSchemas(MaxNest) }
    /\ walkOut = Nil
    /\ refString = NoRef
    /\ parsed = Nil
    /\ iteration = <<>>
    /\ doc = Document(<<>>, <<>>, <<>>, <<>>, <<>>, <<>>)
    /\ opts = FilterOptions(<<>>, <<>>, <<>>, FALSE)
    /\ call = "none"
    /\ result = NoResult
    /\ prev = NoResult
    /\ NoCommandLine

\* extractSchemaReferences(schema, processedSchemaRefs) with an empty map
Walk ==
    /\ walkOut = Nil
    /\ walkOut' = Some(IF IsNil(walkIn) THEN WalkOk({})
                       ELSE extractSchemaReferences(Val(walkIn)))
    /\ UNCHANGED <<walkIn, refString, parsed, iteration, libVars, cliVars>>

NextWalk == Walk

SpecWalk == InitWalk /\ [][NextWalk]_vars

\* The names of the reference nodes of the inline subtree of a schema: a
\* node with a Ref gives its name and nothing below it, an inline node the
\* names below it.
RECURSIVE RefNodeNames(_)
RefNodeNames(node) ==
    IF node.ref # NoRef THEN {extractRefName(node.ref)}
    ELSE IF IsNil(node.value) THEN {}
         ELSE UNION { RefNodeNames(c) : c \in SchemaChildren(Val(node.value)) }

\* C23: the names the walker puts into the map for a schema are exactly the
\* names of the reference nodes of its inline subtree through items,
\* properties, allOf, oneOf, anyOf and not; below a reference node, with or
\* without a Value attached, nothing is collected.
C23_StopsAtReference ==
    (~IsNil(walkOut) /\ ~IsNil(walkIn)) =>
        /\ Val(walkOut).ok
        /\ Val(walkOut).refs = RefNodeNames(Val(walkIn))

\* The same for the schemas whose reference nodes carry no Value.
WalkOfPlainNodes ==
    (~IsNil(walkOut) /\ ~IsNil(walkIn)
        /\ \A n \in SchemaNodes(Val(walkIn)) : n.ref = NoRef \/ IsNil(n.value)) =>
        /\ Val(walkOut).ok
        /\ Val(walkOut).refs = RefNodeNames(Val(walkIn))

\* The content maps of the request body and of the responses of an
\* operation that have a Value.
ContentsOf(op) ==
    { Val(b.value).content : b \in { x \in Range(op.requestBody) : ~IsNil(x.value) } }
    \cup { Val(op.responses[st].value).content
         : st \in { x \in DOMAIN op.responses : ~IsNil(op.responses[x].value) } }

\* The content maps an operation has inline: of a request body and of the
\* responses that are not references.
InlineContentsOf(op) ==
    { Val(b.value).content
    : b \in { x \in Range(op.requestBody) : x.ref = NoRef /\ ~IsNil(x.value) } }
    \cup { Val(op.responses[st].value).content
         : st \in { x \in DOMAIN op.responses :
                      op.responses[x].ref = NoRef /\ ~IsNil(op.responses[x].value) } }

\* Every media-type key of the operations of a document.
MimeKeys(d) ==
    UNION { UNION { DOMAIN c : c \in ContentsOf(d.paths[pm[1]].ops[pm[2]]) }
          : pm \in RetainedOps(d) }

\* C24: the MIME set of the input is the five defaults with every
\* media-type key of the request bodies and responses of its operations,
\* whatever the filter; and when the call returns a document, the schema
\* under every media type of the inline content of a retained operation has
\* been walked: the names it refers to are among the seeded schemas.
C24_MimeTypes ==
    (call = "first") =>
        /\ findAllMimeTypes(doc) =
              { <<"application", "json">>, <<"application", "x-www-form-urlencoded">>,
                <<"multipart", "form-data">>, <<"application", "xml">>,
                <<"text", "plain">> } \cup MimeKeys(doc)
        /\ result.ok =>
              \A pm \in RetainedOps(Out) :
                  \A c \in InlineContentsOf(Out.paths[pm[1]].ops[pm[2]]) :
                      \A mt \in DOMAIN c :
                          { extractRefName(r) : r \in OptSchemaRefStrings(c[mt].schema) }
                              \subseteq result.processedRefs.schemas

\* A document was returned that retains the upload alone: its request body
\* is under application/vnd and refers to "B", which has been seeded.
C24_Witness ==
    /\ call = "first"
    /\ result.ok
    /\ \A pm \in RetainedOps(Out) : Out.paths[pm[1]].ops[pm[2]] = OpUpload
    /\ RetainedOps(Out) # {}
    /\ <<"application", "vnd">> \in findAllMimeTypes(doc)
    /\ "B" \in result.processedRefs.schemas

\* The dotted paths, as sequences of segments, of the reference nodes that
\* name a schema inside the component schemas of a document, down to the
\* second level of properties.
RECURSIVE DottedSites(_, _, _, _)
DottedSites(node, path, name, depth) ==
    (IF node.ref # NoRef /\ extractRefName(node.ref) = name THEN {path} ELSE {})
    \cup IF IsNil(node.value) \/ depth = 0 THEN {}
         ELSE LET v == Val(node.value)
              IN UNION { DottedSites(i, path \o <<"items">>, name, depth - 1)
                       : i \in Range(v.items) }
                 \cup UNION { DottedSites(v.properties[p], path \o <<"properties", p>>,
                                          name, depth - 1)
                            : p \in DOMAIN v.properties }
                 \cup UNION { UNION { DottedSites(v[list][i],
                                                  path \o <<list \o "[" \o ToString(i - 1) \o "]">>,
                                                  name, depth - 1)
                                    : i \in 1..Len(v[list]) }
                            : list \in {"allOf", "oneOf", "anyOf"} }

\* The sites of the references to a schema in the component schemas.
SchemaSites(d, name) ==
    UNION { DottedSites(d.components.schemas[s], <<s>>, name, 2)
          : s \in DOMAIN d.components.schemas }

\* The schemas the retained operations refer to directly.
DirectlyNamed(d, o) ==
    UNION { { extractRefName(r) : r \in OperationRefStrings(op).schemas }
          : op \in SelectedOps(d, o) }

\* C25: the context of the error for a missing schema is the dotted path of
\* a reference to it inside a component schema, as S.properties.p.items; and
\* when a retained operation refers to the missing schema directly and no
\* component schema does, it is a place in the paths of the document.
C25_ErrorContext ==
    (/\ call = "first"
     /\ result.returned
     /\ ~IsNil(result.err)
     /\ Val(result.err).type = "ComponentNotFound"
     /\ Val(result.err).kind = "schema") =>
        \/ Val(result.err).context \in SchemaSites(doc, Val(result.err).name)
        \/ /\ SchemaSites(doc, Val(result.err).name) = {}
           /\ Val(result.err).name \in DirectlyNamed(doc, opts)
           /\ Val(result.err).context # <<>>
           /\ Val(result.err).context[1] = "paths"

\* The same for the errors whose schema is named from a property, from the
\* items of a property, from items or from a composition list of a component
\* schema: all but those of a seed and of a property of a property.
ContextOfShallowSites ==
    (/\ call = "first"
     /\ result.returned
     /\ ~IsNil(result.err)
     /\ Val(result.err).type = "ComponentNotFound"
     /\ Val(result.err).kind = "schema"
     /\ Val(result.err).context # <<"root">>
     /\ Val(result.err).context # <<"A", "properties", "x", "y">>) =>
        Val(result.err).context \in SchemaSites(doc, Val(result.err).name)

\* The methods of the operations of a path that checkOperationMatches
\* accepts.
MatchedMethods(d, o, p) ==
    { m \in DOMAIN d.paths[p].ops : checkOperationMatches(d.paths[p].ops[m], m, o) }

C28_PruningChangesNothing ==
    [][(call' = "first" /\ result'.ok) =>
          Bind(OtherPruning, LAMBDA other :
              /\ other.ok
              /\ other.doc = result'.doc)]_vars

\* Whenever the calls with and without PruneComponents both return a
\* document, it is the same document.
PrunedEqualsUnpruned ==
    [][(call' = "first" /\ result'.ok) =>
          Bind(OtherPruning, LAMBDA other : other.ok => other.doc = result'.doc)]_vars

\* C29: when the call returns a document, for every path of the output that
\* a path prefix matched, the component parameters its PathItem's own
\* parameters refer to are among the parameters of the output, and the
\* schemas the schemas of its inline parameters refer to are among the schemas
\* of the output.
C29_PathLevelParameters ==
    (call = "first" /\ result.ok) =>
        \A p \in DOMAIN Out.paths :
            PrefixMatched(p, opts.paths) =>
                \A i \in 1..Len(Out.paths[p].parameters) :
                    /\ { extractRefName(r) : r \in OwnRef(Out.paths[p].parameters[i]) }
                          \subseteq DOMAIN Out.components.parameters
                    /\ { extractRefName(r)
                       : r \in ParameterSchemaRefStrings(Out.paths[p].parameters[i]) }
                          \subseteq DOMAIN Out.components.schemas

\* C30: when the call returns a document for a filter that names
\* operations, an operation without operationId under a path that no prefix
\* matched is in the output only if a token of the Operations list is its
\* method, whatever the case of the letters.
C30_NoOperationId ==
    (call = "first" /\ result.ok /\ Len(opts.operations) > 0) =>
        \A pm \in RetainedOps(Out) :
            (/\ ~PrefixMatched(pm[1], opts.paths)
             /\ Out.paths[pm[1]].ops[pm[2]].operationId = StrEmpty) =>
                \E i \in 1..Len(opts.operations) : EqualFold(opts.operations[i], pm[2])

\* ------------------------------------------------------------------------
\* Calls in different iteration orders
\* ------------------------------------------------------------------------
\* A reference string without the prefix "#/components/".
BadRef(name) == [ref |-> <<"#", "definitions", name>>, value |-> Nil]

\* An inline response whose content refers to a schema.
ResponseOf(name) == [ref |-> NoRef, value |-> Some([content |-> JsonContent(name)])]

\* GET with two inline responses, one for "A" and one for "B".
OpSeedBoth ==
    [operationId |-> StrX, tags |-> <<"u">>, parameters |-> <<>>, requestBody |-> Nil,
     responses |-> [st \in {"200", "404"} |->
                       IF st = "200" THEN ResponseOf("A") ELSE ResponseOf("B")]]

\* GET with two references to component responses.
OpResponseRefs ==
    [OpSeedBoth EXCEPT !.responses =
        [st \in {"200", "404"} |->
            [ref |-> RefTo("responses", IF st = "200" THEN "A" ELSE "B"), value |-> Nil]]]

\* POST whose two responses are malformed references.
OpBadResponses ==
    [operationId |-> StrEmpty, tags |-> <<"t">>, parameters |-> <<>>, requestBody |-> Nil,
     responses |-> [st \in {"200", "404"} |->
                       BadRef(IF st = "200" THEN "A" ELSE "B")]]

\* GET whose response is a malformed reference.
OpBadGet(name) ==
    [OpSeedBoth EXCEPT !.responses = [st \in {"200"} |-> BadRef(name)]]

\* The paths of these inputs: no fault under either path, faults under one,
\* faults under both paths and in both operations of a path.
OrderedPaths ==
    { [p \in PathNames |-> [summary |-> "", parameters |-> <<>>, ops |-> ops[p]]]
    : ops \in { [p \in PathNames |-> [m \in {StrGET} |-> OpSeedBoth]],
                [p \in PathNames |-> [m \in {StrGET} |-> OpResponseRefs]],
                [p \in PathNames |->
                    IF p = <<"/", "a">>
                    THEN [m \in {StrGET, StrPOST} |->
                            IF m = StrGET THEN OpSeedBoth ELSE OpBadResponses]
                    ELSE [m \in {StrGET} |-> OpResponseRefs]],
                [p \in PathNames |->
                    IF p = <<"/", "a">>
                    THEN [m \in {StrGET, StrPOST} |->
                            IF m = StrGET THEN OpBadGet("G") ELSE OpBadResponses]
                    ELSE [m \in {StrGET} |-> OpBadGet("H")]] } }

\* A schema with the properties "p" and "q".
TwoProperties(p, q) ==
    Inline([EmptySchema EXCEPT !.properties =
                [n \in {"p", "q"} |-> IF n = "p" THEN p ELSE q]])

\* The component schemas and responses: complete; "A" with a reference to
\* the absent "B" and a malformed reference; none.
OrderedStores ==
    { [schemas |-> [n \in {"A", "B"} |->
                      IF n = "A" THEN TwoProperties(SchemaRefTo("B"), SchemaRefTo("B"))
                                 ELSE Inline(EmptySchema)],
       responses |-> [n \in {"A", "B"} |-> ResponseOf(n)]],
      [schemas |-> [n \in {"A"} |-> TwoProperties(SchemaRefTo("B"), BadRef("C"))],
       responses |-> [n \in {"A", "B"} |-> ResponseOf(n)]],
      [schemas |-> <<>>, responses |-> <<>>] }

OrderedDocuments ==
    { Document(<<[name |-> "u"], [name |-> "t"]>>, ps, st.schemas, <<>>, <<>>, st.responses)
      : ps \in OrderedPaths, st \in OrderedStores }

OrderedOptions ==
    { FilterOptions(ps, <<>>, <<>>, prune)
      : ps \in { <<>>, << <<"/", "a", "b">> >> },
        prune \in BOOLEAN }

\* The iteration orders of a call: of the paths, of the method slots, of the
\* response statuses, of the properties of a schema, of the names of a map of
\* seeded components.
Orders ==
    [paths : OrdersOf(PathNames),
     methods : OrdersOf({StrGET, StrPOST}),
     statuses : OrdersOf({"200", "404"}),
     properties : OrdersOf({"p", "q"}),
     names : OrdersOf({"A", "B"})]

InitOrder ==
    /\ doc \in OrderedDocuments
    /\ opts \in OrderedOptions
    /\ iteration \in Orders
    /\ call = "none"
    /\ result = NoResult
    /\ prev = NoResult
    /\ NoCommandLine
    /\ refString = NoRef
    /\ parsed = Nil
    /\ walkIn = Nil
    /\ walkOut = Nil

\* Client.Filter(doc, opts), the Go runtime iterating in the given orders
FilterInOrder ==
    /\ call = "none"
    /\ result' \in Outcomes(applyFilterInOrder(doc, opts, iteration))
    /\ doc' = Val(result'.input)
    /\ call' = "ordered"
    /\ UNCHANGED <<opts, prev, cliVars, refVars>>

\* Client.Filter on the same document with the same options, the runtime
\* iterating in other orders.
FilterReordered ==
    /\ call = "ordered"
    /\ result.returned
    /\ iteration' \in Orders
    /\ result' \in Outcomes(applyFilterInOrder(doc, opts, iteration'))
    /\ doc' = Val(result'.input)
    /\ prev' = result
    /\ call' = "reordered"
    /\ UNCHANGED <<opts, cliVars, refString, parsed, walkIn, walkOut>>

NextOrder == FilterInOrder \/ FilterReordered

SpecOrder == InitOrder /\ [][NextOrder]_vars

\* C27: two calls on the same document with the same options either both
\* return a document, and then the same document, or both return an error,
\* whatever the orders in which the two iterate over the paths, the
\* operations, the responses, the schema properties and the seeded names.
C27_Deterministic ==
    (call = "reordered") =>
        /\ result.returned = prev.returned
        /\ result.ok = prev.ok
        /\ result.doc = prev.doc

\* Two calls on the same input, iterating in different orders, have returned
\* different errors.
C27_Witness ==
    /\ call = "reordered"
    /\ ~result.ok
    /\ ~prev.ok
    /\ result.err # prev.err

\* Two calls in different orders have returned the same document, with
\* paths and schemas.
ReorderedSuccess ==
    /\ call = "reordered"
    /\ result.ok
    /\ DOMAIN Out.paths # {}
    /\ DOMAIN Out.components.schemas # {}

\* The call in given orders returns a document when the call of Spec does,
\* and the same document.
OrderedAgrees ==
    (call = "ordered") =>
        /\ result.ok = applyFilter(doc, opts).ok
        /\ result.doc = applyFilter(doc, opts).doc

============================================================================
